---- MODULE Spec2Model ----
(***************************************************************************)
(* Model of the Dashboard page (src/src/pages/Dashboard.tsx, lines 1-1510) *)
(* of the Power BI dashboard: the registry of embedded visuals, the shared *)
(* filter state and its propagation, the order list with its debounced     *)
(* save, and the published "visuals loaded" flag.                           *)
(*                                                                         *)
(* One action is one event handler together with the React re-render and   *)
(* the effects that the handler's state updates trigger (operator Commit). *)
(* Calls on an embed handle are recorded in the order they are issued and   *)
(* take effect on the visual in that order.                                 *)
(***************************************************************************)
EXTENDS Integers, Sequences, FiniteSets, TLC

----------------------------------------------------------------------------
(* Bounds of the model *)

\* how many of the modal's reports the user may add
MaxReports == 1
\* how many selections with data points are explored
MaxSelects == 1
\* how many clear / dropdown / reset events are explored
MaxEvents == 2
\* how many drag gestures are explored
MaxReorders == 2
\* how many clear handlers may be suspended at their await at once
MaxPending == 1

----------------------------------------------------------------------------
(* Program constants *)

All == "All"

DEFAULT_VISUAL_ORDER ==
    <<"categoryVisual", "storeVisual", "salesByStoreVisual", "salesBySegmentVisual">>

\* staticVisualConfigs: id -> key
staticVisualConfigs ==
    [id \in {"categoryVisual", "storeVisual", "salesByStoreVisual", "salesBySegmentVisual"} |->
        CASE id = "categoryVisual" -> "category"
          [] id = "storeVisual" -> "store"
          [] id = "salesByStoreVisual" -> "salesByStore"
          [] id = "salesBySegmentVisual" -> "salesBySegment"]

StaticIds == DOMAIN staticVisualConfigs
StaticKeys == {staticVisualConfigs[id] : id \in StaticIds}

\* the reports the modal offers (ModalWindow), by id
ModalReports == {1, 2, 3}

\* Report['id'] as a JavaScript value: the number n, or the string of its
\* digits as a layout API may hand it back
NumberId(n) == [type |-> "number", text |-> ToString(n)]
StringId(n) == [type |-> "string", text |-> ToString(n)]

\* String(report.id): the digits, whichever the type
String(reportId) == reportId.text

getDynamicVisualId(reportId) == "dynamic-" \o String(reportId)

DynamicIds == {getDynamicVisualId(NumberId(r)) : r \in ModalReports}

\* the title of each report the modal offers, by String(report.id)
ReportTitle ==
    [t \in {"1", "2", "3"} |->
        CASE t = "1" -> "Category Breakdown"
          [] t = "2" -> "Revenue Trends"
          [] t = "3" -> "Store Breakdown"]

\* a variant whose switch lacks the case of one report: C36 does not hold of it
EmbedTitlesPartial == {"Store Breakdown", "Revenue Trends"}

\* the titles embedDynamicVisual has a page and a visual name for
EmbedTitles == {"Category Breakdown", "Store Breakdown", "Revenue Trends"}

\* every key under which a handle can be stored, in a fixed enumeration order
AllKeysSeq ==
    <<"category", "store", "salesByStore", "salesBySegment",
      "dynamic-1", "dynamic-2", "dynamic-3">>
AllKeys == {AllKeysSeq[i] : i \in DOMAIN AllKeysSeq}

\* filterCategories[0].options and filterCategories[1].options, without 'All'
CategoryOptions ==
    {"Abbas", "Aliqui", "Barba", "Contoso", "Fama", "Leo", "Natura", "Palma", "Pirum", "Pomum"}
SegmentOptions ==
    {"Blue", "Cyan", "Green", "Jade", "Magenta", "Neon Blue", "Orange", "Purple", "Red",
     "Royal Blue", "Turquoise", "Yellow"}

\* getStandardizedValue: valueMap, msProducts, options
valueMapKeys ==
    {"Pirum", "OneNote", "Publisher", "SharePoint", "Kaizala", "PowerApps", "Access", "Word",
     "Exchange", "Planner"}
valueMap ==
    [k \in valueMapKeys |->
        CASE k = "Pirum" -> "Leo"
          [] k = "OneNote" -> "Fama"
          [] k = "Publisher" -> "Abbas"
          [] k = "SharePoint" -> "Barba"
          [] k = "Kaizala" -> "Leo"
          [] k = "PowerApps" -> "Palma"
          [] k = "Access" -> "Aliqui"
          [] k = "Word" -> "Contoso"
          [] k = "Exchange" -> "Leo"
          [] k = "Planner" -> "Fama"]
msProducts ==
    {"Stream", "Power BI", "PowerPoint", "Teams", "Visio", "Outlook", "Excel", "Skype", "Forms"}
options == <<"Barba", "Contoso", "Fama", "Leo", "Natura", "Palma", "Pomum">>

\* valueMap is an object literal: besides its own keys, a lookup finds the
\* members it inherits from Object.prototype, all of them truthy
ObjectPrototypeKeys ==
    {"constructor", "toString", "toLocaleString", "valueOf", "hasOwnProperty",
     "isPrototypeOf", "propertyIsEnumerable", "__proto__", "__defineGetter__",
     "__defineSetter__", "__lookupGetter__", "__lookupSetter__"}

\* stands for the inherited member valueMap[key], a function or an object
InheritedMember(key) == "Object.prototype." \o key

\* the random categories of the salesBySegment branch of handleVisualSelection
categories == <<"Barba", "Contoso", "Fama", "Natura", "Palma", "Pomum">>

\* wait of the debounced save, and the granularity of the model's clock (ms)
DebounceWait == 1000
TickMs == DebounceWait \div 2

----------------------------------------------------------------------------
(* Inputs the actions draw from *)

\* (table, column, equals) of the first identity of a selection: the three
\* managed targets and another, with an alias key (SharePoint), an ambiguous
\* product (Teams), a segment option (Blue) and a value of no option set (Xyz)
SelectionSample ==
    { <<"Store", "Store", "SharePoint">>, <<"Store", "Store", "Teams">>,
      <<"Store", "Store", "Xyz">>, <<"Product", "Product", "Teams">>,
      <<"Product", "Segment", "Blue">>, <<"Geo", "City", "Xyz">> }

\* the selections explored with a payload of a shape; the fields of a
\* malformed payload are not read
SelectionsOf(shape) ==
    IF shape = "ok" THEN SelectionSample ELSE {<<"Store", "Store", "Xyz">>}

\* Math.random() returns r / RandomDen for an r of RandomSample
RandomDen == Len(options) * Len(categories)
RandomSample == {0, 20}

\* the draws of a random choice the handler reaches, none otherwise
DrawsFor(reached) == IF reached THEN RandomSample ELSE {0}

\* shapes of a dataSelected payload with at least one data point
ShapeSample == {"ok", "noIdentity", "noTable", "noEquals"}

\* drag gestures (active id, over id); "" is a drop over nothing
DragSample ==
    { <<"categoryVisual", "salesByStoreVisual">>, <<"categoryVisual", "storeVisual">>,
      <<"salesBySegmentVisual", "categoryVisual">>, <<"dynamic-1", "storeVisual">>,
      <<"storeVisual", "storeVisual">>, <<"categoryVisual", "">> }

\* every gesture: any widget id dropped over any widget id or over nothing
DragAll == (StaticIds \cup DynamicIds) \X (StaticIds \cup DynamicIds \cup {""})

\* the gestures explored together with the rendered events
ReadyDragSample ==
    { <<"categoryVisual", "salesByStoreVisual">>, <<"dynamic-1", "storeVisual">>,
      <<"categoryVisual", "">> }

\* dropdown options the user clicks
CategoryDropdownSample == {All, "Abbas"}
SegmentDropdownSample == {All, "Blue"}

AddableReports == 1..MaxReports

\* what GET /user/dashboard can answer: a configuration this program saved
\* earlier, 404 (none) or a failure (error)
LoadOutcomes ==
    { [kind |-> "none", order |-> <<>>, reports |-> <<>>],
      [kind |-> "error", order |-> <<>>, reports |-> <<>>],
      [kind |-> "config",
       order |-> <<"storeVisual", "categoryVisual", "salesByStoreVisual",
                   "salesBySegmentVisual", "dynamic-1">>,
       reports |-> <<NumberId(1)>>] }

----------------------------------------------------------------------------
(* State *)

VARIABLES
    idToken,                 \* TRUE while the auth store's getToken() gives a token
    embedData,               \* TRUE once /getEmbedToken answered
    isLoadingConfig,
    mounted,                 \* TRUE until the component is unmounted
    user,                    \* TRUE while the auth store holds a user record
    pendingLoads,            \* loadConfig calls in flight, oldest first: "current" for
                             \* the one started last, "stale" for those started before
    selectedCategory,        \* the category slot
    selectedStore,           \* the segment slot
    visualOrder,             \* the Order List
    selectedReports,         \* ids of the added reports, in order
    staticVisualsEmbedded,   \* keys of the static visuals marked embedded
    visualInstances,         \* visualInstancesRef.current: keys holding a handle
    dynamicVisualInstances,  \* dynamicVisualInstances.current: ids holding a handle
    handlersAttached,        \* keys whose 'loaded' event attached dataSelected
    closure,                 \* per key: the slots seen by the attached handlers
    visualRendered,          \* keys of static visuals that reported rendered
    dynamicVisualsRendered,  \* ids of dynamic visuals that reported rendered
    visualsLoaded,           \* the published ready flag (authStore)
    powerBIData,             \* window.__powerBIData: the exposed snapshot
    activeFilters,           \* per key: the filter list active on the visual
    rejecting,               \* keys whose handle rejects setFilters / removeFilters
    pendingRefilter,         \* clear handlers suspended before applyFilters
    timers,                  \* pending timeouts of the debounced save
    saveRequests,            \* PUT requests sent and not yet answered, oldest first
    lastSent,                \* history: the PUT request sent last
    isSavingConfig,
    saveError,
    lastEvent,               \* history: the event the last step handled
    lastCalls,               \* history: handle calls the last step issued
    lastCompletion,          \* history: how the fan-outs of the last step completed
    racedWrite,              \* history: the later of two selections that wrote the same
                             \* slot one after the other, until applyFilters ran after it
    embeds,                  \* history: per key, how often powerbi.embed stored a handle
    burstOrder,              \* history: the order the last saving drag produced
    elapsed,                 \* history: ms since the last debouncedSave call
    burstCalls,              \* history: debouncedSave calls since the last send
    nSelects,
    nEvents,
    nReorders,
    stateCache,              \* the OAuth server's stateCache: the state values it holds
    exchanges,               \* callbacks waiting at the token endpoint, oldest first
    issuedStates,            \* history: every state /auth/login has issued
    usedStates,              \* history: every state a callback went on with
    lastResponse             \* history: the last answer of the OAuth server

\* the OAuth server's side
serverSide == <<stateCache, exchanges, issuedStates, usedStates, lastResponse>>

pageSide ==
    <<embedData, isLoadingConfig, selectedCategory, selectedStore, visualOrder,
      selectedReports, staticVisualsEmbedded, visualInstances, dynamicVisualInstances,
      handlersAttached, closure, visualRendered, dynamicVisualsRendered, visualsLoaded,
      activeFilters, pendingRefilter, timers, saveRequests, isSavingConfig,
      saveError, lastEvent, lastCalls, burstOrder, elapsed, burstCalls, nSelects, nEvents,
      nReorders, rejecting, lastCompletion, embeds, lastSent, idToken, powerBIData,
      racedWrite, mounted, pendingLoads, user>>

vars == <<pageSide, serverSide>>

----------------------------------------------------------------------------
(* Helpers *)

SeqToSet(s) == {s[i] : i \in DOMAIN s}

IndexOf(s, x) ==
    IF \E i \in DOMAIN s : s[i] = x
    THEN CHOOSE i \in DOMAIN s : s[i] = x /\ \A j \in DOMAIN s : s[j] = x => i <= j
    ELSE 0

Event(type, source, table, column, raw, value) ==
    [type |-> type, source |-> source, table |-> table, column |-> column,
     raw |-> raw, value |-> value, prev |-> "",
     preCategory |-> selectedCategory, preStore |-> selectedStore,
     preReady |-> visualsLoaded, preElapsed |-> elapsed, preBurst |-> burstCalls]

\* a PUT /api/user/dashboard request: its body and the place that sent it
Request(order, reports, via) == [order |-> order, reports |-> reports, via |-> via]

\* no request was sent yet
NoRequest == Request(<<>>, <<>>, "")

\* a variant that builds the header whether or not there is a token: C25 does
\* not hold of it
getAuthHeaderUnchecked(hasToken) ==
    [threw |-> FALSE, value |-> "Authorization: Bearer"]

\* getAuthHeader: the Authorization header, or the error it throws
getAuthHeader(hasToken) ==
    IF hasToken THEN [threw |-> FALSE, value |-> "Authorization: Bearer"]
    ELSE [threw |-> TRUE, value |-> "User not authenticated"]

\* saveDashboardConfig up to its await: whether the PUT goes out, and the
\* state of the promise it returns
saveDashboardConfig(hasToken) ==
    IF getAuthHeader(hasToken).threw THEN [sent |-> FALSE, promise |-> "rejected"]
    ELSE [sent |-> TRUE, promise |-> "pending"]

\* fetchDashboardConfig, given what the layout API would answer: the request
\* goes out only with a header, and without one the call throws
fetchDashboardConfig(hasToken, answer) ==
    IF getAuthHeader(hasToken).threw
    THEN [kind |-> "error", order |-> <<>>, reports |-> <<>>]
    ELSE answer

NoEvent ==
    [type |-> "mount", source |-> "", table |-> "", column |-> "", raw |-> "",
     value |-> "", prev |-> "", preCategory |-> All, preStore |-> All, preReady |-> FALSE,
     preElapsed |-> 0, preBurst |-> 0]

----------------------------------------------------------------------------
(* Filter descriptors and the calls on embed handles *)

NoValue == "<undefined>"

InvalidFilter == [table |-> "_invalid_", column |-> "_invalid_", value |-> NoValue]

createFilter(table, column, value) ==
    IF table = "" \/ column = "" \/ value = NoValue
    THEN InvalidFilter
    ELSE [table |-> table, column |-> column, value |-> value]

\* filtersToApply of applyFilters, built from the two slots it sees
FiltersToApply(category, store) ==
    (IF category # All THEN <<createFilter("Store", "Store", category)>> ELSE <<>>)
    \o (IF store # All THEN <<createFilter("Product", "Segment", store)>> ELSE <<>>)

Call(op, key, list, via) == [op |-> op, key |-> key, list |-> list, via |-> via]

\* a variant that awaits the targets one after the other and gives up at the
\* first rejection: C17 does not hold of it
CallsToUntilRejection(targets, op, list, via) ==
    LET keys == SelectSeq(AllKeysSeq, LAMBDA k : k \in targets)
        stop == IF \E i \in DOMAIN keys : keys[i] \in rejecting
                THEN CHOOSE i \in DOMAIN keys :
                        /\ keys[i] \in rejecting
                        /\ \A j \in 1..(i - 1) : keys[j] \notin rejecting
                ELSE Len(keys)
    IN  [i \in 1..stop |-> Call(op, keys[i], list, via)]

\* one call per key of targets, in the enumeration order of the registry:
\* the map callbacks all run up to their await before any call settles
CallsTo(targets, op, list, via) ==
    LET keys == SelectSeq(AllKeysSeq, LAMBDA k : k \in targets)
    IN  [i \in DOMAIN keys |-> Call(op, keys[i], list, via)]

\* the filter list of a visual after the calls, issued in order, took effect;
\* a call that rejects leaves the list of its visual as it was
ApplyCalls(filters, calls) ==
    [k \in AllKeys |->
        LET mine == SelectSeq(calls, LAMBDA c : c.key = k /\ k \notin rejecting)
        IN  IF mine = <<>> THEN filters[k]
            ELSE LET last == mine[Len(mine)]
                 IN  IF last.op = "removeFilters" THEN <<>> ELSE last.list]

\* how the promise of a call on a handle settles
CallOutcome(call) == IF call.key \in rejecting THEN "rejected" ELSE "fulfilled"

\* try { await ... } catch { console.error } around the call of one target,
\* and around the Promise.all of a fan-out
Caught(outcome) == IF outcome = "rejected" THEN "logged" ELSE outcome

\* Promise.all over the callbacks of the targets
PromiseAll(outcomes) ==
    IF \E i \in DOMAIN outcomes : outcomes[i] = "rejected" THEN "rejected" ELSE "fulfilled"

\* how a fan-out that issued these calls completes
FanOutCompletion(calls) ==
    Caught(PromiseAll([i \in DOMAIN calls |-> Caught(CallOutcome(calls[i]))]))

\* applyFilters: setFilters(filtersToApply) on every stored instance
applyFilters(instances, category, store, hasEmbedData, via) ==
    IF ~hasEmbedData THEN <<>>
    ELSE CallsTo(instances, "setFilters", FiltersToApply(category, store), via)

\* the ids applyFilterToVisuals keeps: Object.entries(allInstances) whose
\* registry key differs from sourceVisualId
SingleFilterTargets(instances, sourceVisualId) ==
    {k \in instances : k # sourceVisualId}

\* applyFilterToVisuals: setFilters([filter]) on the instances it keeps
applyFilterToVisuals(instances, sourceVisualId, filter) ==
    IF filter.table = "_invalid_" THEN <<>>
    ELSE CallsTo(SingleFilterTargets(instances, sourceVisualId), "setFilters",
                 <<filter>>, "applyFilterToVisuals")

----------------------------------------------------------------------------
(* Value normalisation *)

\* the replacements at the head of handleVisualSelection, in source order
inlineRules ==
    << <<"Pirum", "Leo">>, <<"OneNote", "Fama">>, <<"Publisher", "Abbas">>,
       <<"SharePoint", "Barba">>, <<"Kaizala", "Leo">>, <<"PowerApps", "Palma">>,
       <<"Access", "Aliqui">>, <<"Word", "Contoso">>, <<"Exchange", "Leo">>,
       <<"Planner", "Fama">> >>

RECURSIVE ApplyRules(_, _, _)
ApplyRules(rules, i, v) ==
    IF i > Len(rules) THEN v
    ELSE ApplyRules(rules, i + 1, IF v = rules[i][1] THEN rules[i][2] ELSE v)

\* list[Math.floor(Math.random() * list.length)] for Math.random() = r / RandomDen
RandomPick(list, r) == list[((r * Len(list)) \div RandomDen) + 1]

\* a variant without the inline replacements: C3 does not hold of it
InlineReplaceNone(raw, r) == raw

\* selectedValue after the inline replacements, r being the random draw
InlineReplace(raw, r) ==
    LET v == ApplyRules(inlineRules, 1, raw)
    IN  IF v \in msProducts THEN RandomPick(options, r) ELSE v

\* getStandardizedValue(selectedValue), r being the random draw
getStandardizedValue(selectedValue, r) ==
    IF selectedValue \in msProducts THEN RandomPick(options, r)
    ELSE IF selectedValue \in valueMapKeys THEN valueMap[selectedValue]
    ELSE IF selectedValue \in ObjectPrototypeKeys THEN InheritedMember(selectedValue)
    ELSE selectedValue

----------------------------------------------------------------------------
(* Re-render and effects *)

IsStatic(id) == id \in StaticIds

\* visualItemsForRender: the ids of the order that getVisualItemData resolves
VisualItemsForRender(order, reports) ==
    SelectSeq(order, LAMBDA id :
        \/ IsStatic(id)
        \/ \E r \in SeqToSet(reports) : getDynamicVisualId(r) = id)

\* a variant without the already-embedded check: C19 does not hold of it
StaticToEmbedAgain(hasEmbedData, loading, order, reports) ==
    IF ~hasEmbedData \/ loading THEN {}
    ELSE {staticVisualConfigs[id] :
            id \in {x \in SeqToSet(VisualItemsForRender(order, reports)) : IsStatic(x)}}

\* the static embed effect: keys embedStaticVisual embeds in this commit
StaticToEmbed(hasEmbedData, loading, order, reports) ==
    IF ~hasEmbedData \/ loading THEN {}
    ELSE {staticVisualConfigs[id] :
            id \in {x \in SeqToSet(VisualItemsForRender(order, reports)) : IsStatic(x)}}
         \ staticVisualsEmbedded

\* a variant that does not wait for embedData and the configuration: C27
\* does not hold of it
DynamicToEmbedAtOnce(hasEmbedData, loading, order, reports) ==
    IF reports = <<>> THEN {}
    ELSE ({getDynamicVisualId(r) : r \in SeqToSet(reports)}
            \cap SeqToSet(VisualItemsForRender(order, reports)))
         \ dynamicVisualInstances

\* the dynamic embed effect: ids embedDynamicVisual embeds in this commit (the
\* container ref is attached only for an id the grid renders)
DynamicToEmbed(hasEmbedData, loading, order, reports) ==
    IF ~hasEmbedData \/ loading \/ reports = <<>> THEN {}
    ELSE ({getDynamicVisualId(r) :
              r \in {x \in SeqToSet(reports) : ReportTitle[String(x)] \in EmbedTitles}}
            \cap SeqToSet(VisualItemsForRender(order, reports)))
         \ dynamicVisualInstances

\* a variant that looks at the static visuals only: C6 does not hold of it
AllLoadedStaticOnly(loading, order, reports, vRendered, dRendered) ==
    IF loading THEN FALSE
    ELSE \A id \in {x \in StaticIds : x \in SeqToSet(order)} :
            staticVisualConfigs[id] \in vRendered

\* a variant that is content with one rendered visual: C7 does not hold of it
AllLoadedSome(loading, order, reports, vRendered, dRendered) ==
    IF loading THEN FALSE
    ELSE vRendered # {} \/ dRendered # {}

\* the global loading state effect: the value passed to setVisualsLoaded
AllLoaded(loading, order, reports, vRendered, dRendered) ==
    IF loading THEN FALSE
    ELSE LET staticInOrder == {id \in StaticIds : id \in SeqToSet(order)}
             allStatic == \A id \in staticInOrder : staticVisualConfigs[id] \in vRendered
             allDynamic == \A r \in SeqToSet(reports) : getDynamicVisualId(r) \in dRendered
         IN  allStatic /\ allDynamic

\* window.__powerBIData is deleted
NoSnapshot == [present |-> FALSE, filters |-> <<>>, visuals |-> <<>>]

\* the object the data exposure effect assigns to window.__powerBIData
Snapshot(category, store, order, reports, instances) ==
    LET items == VisualItemsForRender(order, reports)
    IN  [present |-> TRUE,
         filters |-> << [table |-> "Store", column |-> "Store", value |-> category],
                        [table |-> "Product", column |-> "Segment", value |-> store] >>,
         visuals |-> [i \in DOMAIN items |->
                         [id |-> items[i],
                          type |-> IF IsStatic(items[i]) THEN "static" ELSE "dynamic",
                          visible |-> (IF IsStatic(items[i])
                                       THEN staticVisualConfigs[items[i]]
                                       ELSE items[i]) \in instances]]]

\* a variant whose dependencies lack visualItemsForRender and
\* selectedReports: C26 does not hold of it
ExposureDepsChangedSlotsOnly(category, store, hasEmbedData, loading, order, reports) ==
    \/ category # selectedCategory
    \/ store # selectedStore
    \/ hasEmbedData # embedData
    \/ loading # isLoadingConfig

\* whether a dependency of the data exposure effect changed in this commit
ExposureDepsChanged(category, store, hasEmbedData, loading, order, reports) ==
    \/ category # selectedCategory
    \/ store # selectedStore
    \/ hasEmbedData # embedData
    \/ loading # isLoadingConfig
    \/ order # visualOrder
    \/ reports # selectedReports

\* the data exposure effect: its cleanup deletes the snapshot, then it exposes
\* a new one unless the configuration is loading, embedData is missing or no
\* instance is stored
DataExposure(category, store, hasEmbedData, loading, order, reports, instances) ==
    IF ~ExposureDepsChanged(category, store, hasEmbedData, loading, order, reports)
    THEN powerBIData
    ELSE IF loading \/ ~hasEmbedData \/ instances = {} THEN NoSnapshot
    ELSE Snapshot(category, store, order, reports, instances)

\* The commit after a handler: the state the handler set, then the embed
\* effects, the apply-filters effect, the data exposure effect and the
\* loading-state effect. What the effects embed and the calls of the step are
\* each computed once.
\* no two selections wrote the same slot one after the other
NoWrite == [slot |-> "none", value |-> ""]

\* the slot the handler of a selection event wrote: setSelectedCategory or
\* setSelectedStore in handleVisualSelection, none when the payload was
\* dropped or the pairing is not a managed one
WrittenSlot(ev) ==
    IF ev.type # "select" \/ ev.value = NoValue THEN "none"
    ELSE IF IsStatic(ev.source) /\ staticVisualConfigs[ev.source] = "salesBySegment"
    THEN "category"
    ELSE IF <<ev.table, ev.column>> \in {<<"Product", "Product">>, <<"Store", "Store">>}
    THEN "category"
    ELSE IF <<ev.table, ev.column>> = <<"Product", "Segment">>
    THEN "segment"
    ELSE "none"

\* applyFilters issued calls among these
RanApplyFilters(calls) ==
    \E i \in DOMAIN calls :
        calls[i].via \in {"applyFilters", "clearCrossFilters.applyFilters"}

\* the later write of two selections in sequence, kept until an applyFilters
\* has run after it or the slot is written again
RacedWrite(ev, category, store) ==
    IF WrittenSlot(ev) # "none" /\ WrittenSlot(lastEvent) = WrittenSlot(ev)
    THEN [slot |-> WrittenSlot(ev), value |-> ev.value]
    ELSE IF racedWrite = NoWrite \/ RanApplyFilters(lastCalls) THEN NoWrite
    ELSE IF (IF racedWrite.slot = "category" THEN category ELSE store) # racedWrite.value
    THEN NoWrite
    ELSE racedWrite

Commit(ev, category, store, hasEmbedData, loading, order, reports, vRendered, dRendered, handlerCalls) ==
    LET depsChanged == \/ category # selectedCategory
                       \/ store # selectedStore
                       \/ hasEmbedData # embedData
                       \/ loading # isLoadingConfig
        EffectCalls(instances) ==
            IF hasEmbedData /\ ~loading /\ depsChanged
            THEN applyFilters(instances, category, store, hasEmbedData, "applyFilters")
            ELSE <<>>
    IN  \E newStatic \in {StaticToEmbed(hasEmbedData, loading, order, reports)},
           newDynamic \in {DynamicToEmbed(hasEmbedData, loading, order, reports)} :
        \E calls \in {handlerCalls
                          \o EffectCalls(visualInstances \cup newStatic
                                           \cup dynamicVisualInstances \cup newDynamic)} :
        /\ embedData' = hasEmbedData
        /\ isLoadingConfig' = loading
        /\ selectedCategory' = category
        /\ selectedStore' = store
        /\ visualOrder' = order
        /\ selectedReports' = reports
        /\ staticVisualsEmbedded' = staticVisualsEmbedded \cup newStatic
        /\ visualInstances' = visualInstances \cup newStatic
        /\ dynamicVisualInstances' = dynamicVisualInstances \cup newDynamic
        /\ closure' = [k \in AllKeys |->
                          IF k \in newStatic \cup newDynamic
                          THEN [category |-> category, store |-> store]
                          ELSE closure[k]]
        /\ visualRendered' = vRendered
        /\ dynamicVisualsRendered' = dRendered
        /\ visualsLoaded' = AllLoaded(loading, order, reports, vRendered, dRendered)
        /\ powerBIData' = DataExposure(category, store, hasEmbedData, loading, order,
                                       reports,
                                       visualInstances \cup newStatic
                                           \cup dynamicVisualInstances \cup newDynamic)
        /\ activeFilters' = ApplyCalls(activeFilters, calls)
        /\ lastCalls' = calls
        /\ lastCompletion' = FanOutCompletion(calls)
        /\ racedWrite' = RacedWrite(ev, category, store)
        /\ embeds' = [k \in AllKeys |->
                         IF k \in newStatic \cup newDynamic THEN embeds[k] + 1
                         ELSE embeds[k]]
        /\ rejecting' = rejecting
        /\ lastEvent' = ev

\* variables no effect writes
filterSide == <<handlersAttached, pendingRefilter, nSelects, nEvents>>
saveSide == <<timers, saveRequests, lastSent, isSavingConfig, saveError,
              burstOrder, elapsed, burstCalls, nReorders>>
\* an answer of the OAuth server: the route, the state of the request, the status
Response(route, state, status) == [route |-> route, state |-> state, status |-> status]
NoResponse == Response("", "", 0)

\* one loadConfig call in flight: whether it is the latest started, and whether
\* its request carried a token
Load(age, token) == [age |-> age, token |-> token]

\* every load in flight was started for an earlier user
Outdated(loads) == [l \in DOMAIN loads |-> Load("stale", loads[l].token)]

loadSide == <<mounted, pendingLoads, idToken, user, serverSide>>

----------------------------------------------------------------------------
(* Initial state: the component just mounted, both fetches in flight *)

InitState ==
    /\ embedData = FALSE
    /\ isLoadingConfig = TRUE
    /\ mounted = TRUE
    /\ user = TRUE
    /\ stateCache = {}
    /\ exchanges = <<>>
    /\ issuedStates = {}
    /\ usedStates = {}
    /\ lastResponse = NoResponse
    /\ pendingLoads = <<Load("current", idToken)>>
    /\ selectedCategory = All
    /\ selectedStore = All
    /\ visualOrder = DEFAULT_VISUAL_ORDER
    /\ selectedReports = <<>>
    /\ staticVisualsEmbedded = {}
    /\ visualInstances = {}
    /\ dynamicVisualInstances = {}
    /\ handlersAttached = {}
    /\ closure = [k \in AllKeys |-> [category |-> All, store |-> All]]
    /\ visualRendered = {}
    /\ dynamicVisualsRendered = {}
    /\ visualsLoaded = FALSE
    /\ powerBIData = NoSnapshot
    /\ activeFilters = [k \in AllKeys |-> <<>>]
    /\ pendingRefilter = <<>>
    /\ timers = <<>>
    /\ saveRequests = <<>>
    /\ lastSent = NoRequest
    /\ isSavingConfig = FALSE
    /\ saveError = FALSE
    /\ lastCalls = <<>>
    /\ lastCompletion = "fulfilled"
    /\ racedWrite = NoWrite
    /\ embeds = [k \in AllKeys |-> 0]
    /\ burstOrder = <<>>
    /\ elapsed = 0
    /\ burstCalls = 0
    /\ nSelects = 0
    /\ nEvents = 0
    /\ nReorders = 0

Init == idToken = TRUE /\ InitState /\ rejecting = {} /\ lastEvent = NoEvent

----------------------------------------------------------------------------
(* Loading *)

\* a variant that leaves the layout as it is when no configuration arrives:
\* C30 does not hold of it
ConfigLoadedNoFallback(outcome) ==
    \E i \in DOMAIN pendingLoads :
    /\ pendingLoads' = SubSeq(pendingLoads, 1, i - 1)
                         \o SubSeq(pendingLoads, i + 1, Len(pendingLoads))
    /\ LET config == fetchDashboardConfig(pendingLoads[i].token, outcome)
           order == IF config.kind = "config" THEN config.order ELSE visualOrder
           reports == IF config.kind = "config" THEN config.reports ELSE selectedReports
       IN  Commit(Event("configLoaded", pendingLoads[i].age, "", "", config.kind, ""),
                  selectedCategory, selectedStore, embedData, FALSE, order, reports,
                  visualRendered, dynamicVisualsRendered, <<>>)
    /\ UNCHANGED <<serverSide, mounted, idToken, user, filterSide, saveSide>>

\* a variant whose failure fallback resets the order but keeps the reports:
\* C35 does not hold of it
ConfigLoadedKeepsReports(outcome) ==
    \E i \in DOMAIN pendingLoads :
    /\ pendingLoads' = SubSeq(pendingLoads, 1, i - 1)
                         \o SubSeq(pendingLoads, i + 1, Len(pendingLoads))
    /\ LET config == fetchDashboardConfig(pendingLoads[i].token, outcome)
           order == IF config.kind = "config" THEN config.order ELSE DEFAULT_VISUAL_ORDER
           reports == IF config.kind = "config" THEN config.reports ELSE selectedReports
       IN  Commit(Event("configLoaded", pendingLoads[i].age, "", "", config.kind, ""),
                  selectedCategory, selectedStore, embedData, FALSE, order, reports,
                  visualRendered, dynamicVisualsRendered, <<>>)
    /\ UNCHANGED <<serverSide, mounted, idToken, user, filterSide, saveSide>>

\* loadConfig settles: the saved configuration, or the default order
ConfigLoaded(outcome) ==
    \E i \in DOMAIN pendingLoads :
    /\ pendingLoads' = SubSeq(pendingLoads, 1, i - 1)
                         \o SubSeq(pendingLoads, i + 1, Len(pendingLoads))
    /\ LET config == fetchDashboardConfig(pendingLoads[i].token, outcome)
           order == IF config.kind = "config" THEN config.order ELSE DEFAULT_VISUAL_ORDER
           reports == IF config.kind = "config" THEN config.reports ELSE <<>>
       IN  IF mounted
           THEN Commit(Event("configLoaded", pendingLoads[i].age, "", "", config.kind, ""),
                       selectedCategory, selectedStore, embedData, FALSE, order, reports,
                       visualRendered, dynamicVisualsRendered, <<>>)
           ELSE Commit(Event("configLoaded", pendingLoads[i].age, "", "", config.kind, ""),
                       selectedCategory, selectedStore, embedData, isLoadingConfig,
                       visualOrder, selectedReports,
                       visualRendered, dynamicVisualsRendered, <<>>)
    /\ UNCHANGED <<serverSide, mounted, idToken, user, filterSide, saveSide>>

\* a variant that starts the page over on a reload, as a remount would: C29
\* does not hold of it
UserChangedResetsFlags ==
    /\ ~isLoadingConfig
    /\ nEvents < MaxEvents
    /\ Commit(Event("userChanged", "", "", "", "", ""),
              selectedCategory, selectedStore, embedData, TRUE, visualOrder,
              selectedReports, {}, {}, <<>>)
    /\ nEvents' = nEvents + 1
    /\ pendingLoads' = Append(Outdated(pendingLoads), Load("current", idToken))
    /\ UNCHANGED <<serverSide, mounted, idToken, user, handlersAttached, pendingRefilter, nSelects, saveSide>>

\* the load effect runs again for another signed-in user and shows the
\* loading screen until this loadConfig settles; loads in flight keep running
loadConfig ==
    /\ user
    /\ nEvents < MaxEvents
    /\ Commit(Event("userChanged", "", "", "", "", ""),
              selectedCategory, selectedStore, embedData, TRUE, visualOrder,
              selectedReports, visualRendered, dynamicVisualsRendered, <<>>)
    /\ nEvents' = nEvents + 1
    /\ pendingLoads' = Append(Outdated(pendingLoads), Load("current", idToken))
    /\ UNCHANGED <<serverSide, mounted, idToken, user, handlersAttached, pendingRefilter, nSelects, saveSide>>

\* the auth store publishes another signed-in user while the page shows
UserChanged == ~isLoadingConfig /\ loadConfig

\* the auth store loses its user: the load effect resets the layout to the
\* default order and starts no load
UserAbsent ==
    /\ user
    /\ user' = FALSE
    /\ idToken' = FALSE
    /\ pendingLoads' = Outdated(pendingLoads)
    /\ Commit(Event("userAbsent", "", "", "", "", ""),
              selectedCategory, selectedStore, embedData, FALSE, DEFAULT_VISUAL_ORDER,
              <<>>, visualRendered, dynamicVisualsRendered, <<>>)
    /\ UNCHANGED <<serverSide, mounted, filterSide, saveSide>>

\* fetchEmbedToken settles with a complete answer
EmbedDataFetched ==
    /\ ~embedData
    /\ Commit(Event("embedData", "", "", "", "", ""),
              selectedCategory, selectedStore, TRUE, isLoadingConfig, visualOrder,
              selectedReports, visualRendered, dynamicVisualsRendered, <<>>)
    /\ UNCHANGED <<loadSide, filterSide, saveSide>>

\* the 'loaded' event of an embedded visual attaches its dataSelected handler.
\* The events of the visuals embedded together are taken in registry order:
\* a 'loaded' handler only attaches handlers, so the order in which different
\* visuals report loaded changes nothing else.
Loaded(k) ==
    /\ k \in visualInstances \cup dynamicVisualInstances
    /\ k \notin handlersAttached
    /\ \A j \in (visualInstances \cup dynamicVisualInstances) \ handlersAttached :
          IndexOf(AllKeysSeq, k) <= IndexOf(AllKeysSeq, j)
    /\ handlersAttached' = handlersAttached \cup {k}
    /\ Commit(Event("loaded", k, "", "", "", ""),
              selectedCategory, selectedStore, embedData, isLoadingConfig, visualOrder,
              selectedReports, visualRendered, dynamicVisualsRendered, <<>>)
    /\ UNCHANGED <<loadSide, pendingRefilter, nSelects, nEvents, saveSide>>

\* the 'rendered' event of an embedded visual
Rendered(k) ==
    /\ k \in visualInstances \cup dynamicVisualInstances
    /\ Commit(Event("rendered", k, "", "", "", ""),
              selectedCategory, selectedStore, embedData, isLoadingConfig, visualOrder,
              selectedReports,
              IF k \in StaticKeys THEN visualRendered \cup {k} ELSE visualRendered,
              IF k \in StaticKeys THEN dynamicVisualsRendered
              ELSE dynamicVisualsRendered \cup {k},
              <<>>)
    /\ UNCHANGED <<loadSide, filterSide, saveSide>>

----------------------------------------------------------------------------
(* Selection, clearing, dropdowns, reset *)

\* the id a visual's dataSelected handler passes on: config.id or dynamicId
SourceIdOf(k) ==
    IF k \in StaticKeys
    THEN CHOOSE id \in StaticIds : staticVisualConfigs[id] = k
    ELSE k

NoFilter == [has |-> FALSE, filter |-> InvalidFilter]
SomeFilter(f) == [has |-> TRUE, filter |-> f]

Outcome(category, store, filterToApply) ==
    [category |-> category, store |-> store, filterToApply |-> filterToApply]

\* the static branch of handleVisualSelection for a source other than
\* salesBySegment: the slot and the filter by (targetTable, targetColumn)
StaticSelection(targetTable, targetColumn, standardizedValue) ==
    IF targetTable = "Product" /\ targetColumn = "Product"
    THEN Outcome(standardizedValue, selectedStore,
                 SomeFilter(createFilter(targetTable, targetColumn, standardizedValue)))
    ELSE IF targetTable = "Store" /\ targetColumn = "Store"
    THEN Outcome(standardizedValue, selectedStore,
                 SomeFilter(createFilter(targetTable, targetColumn, standardizedValue)))
    ELSE IF targetTable = "Product" /\ targetColumn = "Segment"
    THEN Outcome(selectedCategory, standardizedValue,
                 SomeFilter(createFilter(targetTable, targetColumn, standardizedValue)))
    ELSE Outcome(selectedCategory, selectedStore, NoFilter)

\* a variant that maps every managed target to the category slot: C15 does
\* not hold of it
DynamicSelectionOneSlot(targetTable, targetColumn, filterValue) ==
    Outcome(filterValue, selectedStore,
            SomeFilter(createFilter(targetTable, targetColumn, filterValue)))

\* the dynamic branch of handleVisualSelection
DynamicSelection(targetTable, targetColumn, filterValue) ==
    IF targetTable = "Product" /\ targetColumn = "Product"
    THEN Outcome(filterValue, selectedStore,
                 SomeFilter(createFilter(targetTable, targetColumn, filterValue)))
    ELSE IF targetTable = "Store" /\ targetColumn = "Store"
    THEN Outcome(filterValue, selectedStore,
                 SomeFilter(createFilter(targetTable, targetColumn, filterValue)))
    ELSE IF targetTable = "Product" /\ targetColumn = "Segment"
    THEN Outcome(selectedCategory, filterValue,
                 SomeFilter(createFilter(targetTable, targetColumn, filterValue)))
    ELSE Outcome(selectedCategory, selectedStore,
                 SomeFilter(createFilter(targetTable, targetColumn, filterValue)))

\* the salesBySegment branch: a random category on (Product, Product)
SalesBySegmentSelection(r) ==
    LET randomCategory == RandomPick(categories, r)
    IN  Outcome(randomCategory, selectedStore,
                SomeFilter(createFilter("Product", "Product", randomCategory)))

\* a variant that does not validate the payload: C12 does not hold of it
handleVisualSelectionAnyShape(sourceVisualId, shape, targetTable, targetColumn, raw, r1, r2, r3) ==
    LET filterValue == InlineReplace(raw, r1)
    IN  IF IsStatic(sourceVisualId)
        THEN IF staticVisualConfigs[sourceVisualId] = "salesBySegment"
             THEN SalesBySegmentSelection(r3)
             ELSE StaticSelection(targetTable, targetColumn,
                                  getStandardizedValue(filterValue, r2))
        ELSE DynamicSelection(targetTable, targetColumn, filterValue)

\* handleVisualSelection up to its call of applyFilterToVisuals, r1, r2 and
\* r3 being the random draws of the inline replacement, of
\* getStandardizedValue and of the salesBySegment branch; no filter and
\* unchanged slots when the payload is dropped
handleVisualSelection(sourceVisualId, shape, targetTable, targetColumn, raw, r1, r2, r3) ==
    IF shape # "ok" \/ targetTable = "" \/ targetColumn = ""
    THEN Outcome(selectedCategory, selectedStore, NoFilter)
    ELSE LET filterValue == InlineReplace(raw, r1)
         IN  IF IsStatic(sourceVisualId)
             THEN IF staticVisualConfigs[sourceVisualId] = "salesBySegment"
                  THEN SalesBySegmentSelection(r3)
                  ELSE StaticSelection(targetTable, targetColumn,
                                       getStandardizedValue(filterValue, r2))
             ELSE DynamicSelection(targetTable, targetColumn, filterValue)

\* a dataSelected event with data points on the visual stored under k
dataSelected(k, shape, sel) ==
    /\ k \in handlersAttached
    /\ \E r1 \in DrawsFor(shape = "ok" /\ ApplyRules(inlineRules, 1, sel[3]) \in msProducts),
          r2 \in DrawsFor(shape = "ok" /\ k \in StaticKeys
                          /\ InlineReplace(sel[3], 0) \in msProducts),
          r3 \in DrawsFor(shape = "ok" /\ k = "salesBySegment") :
          LET o == handleVisualSelection(SourceIdOf(k), shape, sel[1], sel[2], sel[3],
                                         r1, r2, r3)
          IN
          Commit(Event("select", SourceIdOf(k),
                       IF shape = "ok" THEN sel[1] ELSE "",
                       IF shape = "ok" THEN sel[2] ELSE "",
                       IF shape = "ok" THEN sel[3] ELSE shape,
                       IF o.filterToApply.has THEN o.filterToApply.filter.value ELSE NoValue),
                 o.category, o.store, embedData, isLoadingConfig, visualOrder,
                 selectedReports, visualRendered, dynamicVisualsRendered,
                 IF o.filterToApply.has
                 THEN applyFilterToVisuals(visualInstances \cup dynamicVisualInstances,
                                           SourceIdOf(k), o.filterToApply.filter)
                 ELSE <<>>)
    /\ nSelects' = nSelects + 1
    /\ UNCHANGED <<loadSide, handlersAttached, pendingRefilter, nEvents, saveSide>>

\* the event, while the explored number of selections is not reached
Select(k, shape, sel) ==
    /\ nSelects < MaxSelects
    /\ dataSelected(k, shape, sel)

\* a variant that resets both slots: C18 does not hold of it
clearCrossFiltersBothSlots(sourceVisualId, seenCategory, seenStore) ==
    [resetCategory |-> TRUE, resetStore |-> TRUE, needsRefilter |-> FALSE]

\* clearCrossFilters up to its await: which slot is reset and whether
\* applyFilters runs at the end, decided on the slots the handler sees
clearCrossFilters(sourceVisualId, seenCategory, seenStore) ==
    LET sourceKey == IF IsStatic(sourceVisualId) THEN staticVisualConfigs[sourceVisualId]
                     ELSE ""
        isStoreRelated == sourceKey \in {"category", "salesByStore"}
        isSegmentRelated == sourceKey \in {"store", "salesBySegment"}
    IN  IF IsStatic(sourceVisualId)
        THEN IF isStoreRelated /\ seenCategory # All
             THEN [resetCategory |-> TRUE, resetStore |-> FALSE,
                   needsRefilter |-> seenStore # All]
             ELSE IF isSegmentRelated /\ seenStore # All
             THEN [resetCategory |-> FALSE, resetStore |-> TRUE,
                   needsRefilter |-> seenCategory # All]
             ELSE [resetCategory |-> FALSE, resetStore |-> FALSE,
                   needsRefilter |-> seenCategory # All \/ seenStore # All]
        ELSE [resetCategory |-> FALSE, resetStore |-> FALSE,
              needsRefilter |-> seenCategory # All \/ seenStore # All]

\* the ids clearCrossFilters removes filters from
ClearTargets(instances, sourceVisualId) ==
    {k \in instances : k # sourceVisualId}

\* a dataSelected event without data points on the visual stored under k:
\* the handler attached when k was embedded runs up to its await
Clear(k) ==
    /\ k \in handlersAttached
    /\ nEvents < MaxEvents
    /\ LET c == clearCrossFilters(SourceIdOf(k), closure[k].category, closure[k].store)
       IN  /\ c.needsRefilter => Len(pendingRefilter) < MaxPending
           /\ pendingRefilter' = IF c.needsRefilter
                                 THEN Append(pendingRefilter, closure[k])
                                 ELSE pendingRefilter
           /\ Commit(Event("clear", SourceIdOf(k), "", "", "", ""),
                     IF c.resetCategory THEN All ELSE selectedCategory,
                     IF c.resetStore THEN All ELSE selectedStore,
                     embedData, isLoadingConfig, visualOrder, selectedReports,
                     visualRendered, dynamicVisualsRendered,
                     CallsTo(ClearTargets(visualInstances \cup dynamicVisualInstances,
                                          SourceIdOf(k)),
                             "removeFilters", <<>>, "clearCrossFilters"))
    /\ nEvents' = nEvents + 1
    /\ UNCHANGED <<loadSide, handlersAttached, nSelects, saveSide>>

\* a suspended clear handler resumes: applyFilters of its own render
ClearResumes ==
    /\ pendingRefilter # <<>>
    /\ pendingRefilter' = Tail(pendingRefilter)
    /\ Commit(Event("refilter", "", "", "", "", ""),
              selectedCategory, selectedStore, embedData, isLoadingConfig, visualOrder,
              selectedReports, visualRendered, dynamicVisualsRendered,
              applyFilters(visualInstances \cup dynamicVisualInstances,
                           Head(pendingRefilter).category, Head(pendingRefilter).store,
                           TRUE, "clearCrossFilters.applyFilters"))
    /\ UNCHANGED <<loadSide, handlersAttached, nSelects, nEvents, saveSide>>

\* the user picks an option of the Store dropdown
handleCategoryChange(storeValue) ==
    /\ ~isLoadingConfig
    /\ nEvents < MaxEvents
    /\ Commit(Event("categoryChange", "", "", "", storeValue, storeValue),
              storeValue, selectedStore, embedData, isLoadingConfig, visualOrder,
              selectedReports, visualRendered, dynamicVisualsRendered, <<>>)
    /\ nEvents' = nEvents + 1
    /\ UNCHANGED <<loadSide, handlersAttached, pendingRefilter, nSelects, saveSide>>

\* the user picks an option of the Segment dropdown
handleStoreChange(segmentValue) ==
    /\ ~isLoadingConfig
    /\ nEvents < MaxEvents
    /\ Commit(Event("storeChange", "", "", "", segmentValue, segmentValue),
              selectedCategory, segmentValue, embedData, isLoadingConfig, visualOrder,
              selectedReports, visualRendered, dynamicVisualsRendered, <<>>)
    /\ nEvents' = nEvents + 1
    /\ UNCHANGED <<loadSide, handlersAttached, pendingRefilter, nSelects, saveSide>>

\* a variant that leaves the segment slot alone: C5 does not hold of it
resetAllFiltersKeepSegment(instances) ==
    [category |-> All, store |-> selectedStore,
     calls |-> CallsTo(instances, "removeFilters", <<>>, "resetAllFilters")]

\* what resetAllFilters leaves: both slots and the calls it issues
resetAllFilters(instances) ==
    [category |-> All, store |-> All,
     calls |-> CallsTo(instances, "removeFilters", <<>>, "resetAllFilters")]

\* the Clear button, or a double click on a static container
ResetAll ==
    /\ ~isLoadingConfig
    /\ nEvents < MaxEvents
    /\ LET r == resetAllFilters(visualInstances \cup dynamicVisualInstances)
       IN  Commit([Event("reset", "", "", "", "", "") EXCEPT !.prev = lastEvent.type],
                  r.category, r.store, embedData, isLoadingConfig, visualOrder,
                  selectedReports, visualRendered, dynamicVisualsRendered, r.calls)
    /\ nEvents' = nEvents + 1
    /\ UNCHANGED <<loadSide, handlersAttached, pendingRefilter, nSelects, saveSide>>

----------------------------------------------------------------------------
(* Order list, added reports and the debounced save *)

\* a variant that counts the target position before taking the element out:
\* C9 does not hold of it
arrayMoveBefore(items, from, to) ==
    LET without == [i \in 1..(Len(items) - 1) |->
                       IF i < from THEN items[i] ELSE items[i + 1]]
        at == IF from < to THEN to - 1 ELSE to
    IN  [i \in 1..Len(items) |->
            IF i < at THEN without[i]
            ELSE IF i = at THEN items[from]
            ELSE without[i - 1]]

\* a variant that exchanges the two elements: C24 does not hold of it
arraySwap(items, from, to) ==
    [i \in 1..Len(items) |->
        IF i = from THEN items[to]
        ELSE IF i = to THEN items[from]
        ELSE items[i]]

\* arrayMove of @dnd-kit/sortable, positions counted from 1: the element at
\* from is taken out and put back at position to
arrayMove(items, from, to) ==
    LET without == [i \in 1..(Len(items) - 1) |->
                       IF i < from THEN items[i] ELSE items[i + 1]]
    IN  [i \in 1..Len(items) |->
            IF i < to THEN without[i]
            ELSE IF i = to THEN items[from]
            ELSE without[i - 1]]

\* the updater of handleDragEnd: the new order, or items when an id is absent
DragResult(items, activeId, overId) ==
    LET oldIndex == IndexOf(items, activeId)
        newIndex == IndexOf(items, overId)
    IN  IF oldIndex = 0 \/ newIndex = 0 THEN items
        ELSE arrayMove(items, oldIndex, newIndex)

\* whether handleDragEnd reaches debouncedSave
DragSaves(items, activeId, overId) ==
    /\ overId # ""
    /\ activeId # overId
    /\ IndexOf(items, activeId) # 0
    /\ IndexOf(items, overId) # 0

Timer(order, reports) ==
    [remaining |-> DebounceWait, order |-> order, reports |-> reports]

\* a variant that does not clear the pending timeout: C8 does not hold of it
debounceNoClear(pending, order, reports) ==
    Append(pending, Timer(order, reports))

\* a call of the debounced function: the pending timeout is cleared and a
\* new one is set for the latest arguments
debounce(pending, order, reports) ==
    <<Timer(order, reports)>>

\* a drag gesture ends with activeId over overId ("" when over nothing)
handleDragEnd(activeId, overId) ==
    /\ ~isLoadingConfig
    /\ nReorders < MaxReorders
    /\ activeId \in SeqToSet(VisualItemsForRender(visualOrder, selectedReports))
    /\ LET saves == DragSaves(visualOrder, activeId, overId)
           newOrder == IF overId # "" /\ activeId # overId
                       THEN DragResult(visualOrder, activeId, overId)
                       ELSE visualOrder
       IN  /\ timers' = IF saves THEN debounce(timers, newOrder, selectedReports)
                        ELSE timers
           /\ elapsed' = IF saves THEN 0 ELSE elapsed
           /\ burstCalls' = IF saves THEN burstCalls + 1 ELSE burstCalls
           /\ burstOrder' = IF saves THEN newOrder ELSE burstOrder
           /\ Commit(Event("dragEnd", activeId, "", "", overId, ""),
                     selectedCategory, selectedStore, embedData, isLoadingConfig, newOrder,
                     selectedReports, visualRendered, dynamicVisualsRendered, <<>>)
    /\ nReorders' = nReorders + 1
    /\ UNCHANGED <<loadSide, filterSide, saveRequests, lastSent, isSavingConfig, saveError>>

\* the modal's selection as the modal passes it: its reports in list order
ReportSeq(ids) ==
    LET chosen == SelectSeq(<<1, 2, 3>>, LAMBDA r : r \in ids)
    IN  [i \in DOMAIN chosen |-> NumberId(chosen[i])]

\* a variant that compares the ids with === and without String(): C23 does
\* not hold of it
UniqueNewReportsStrict(reports, newlySelected) ==
    SelectSeq(newlySelected, LAMBDA newReport : newReport \notin SeqToSet(reports))

\* uniqueNewReports of handleAddReports
UniqueNewReports(reports, newlySelected) ==
    SelectSeq(newlySelected, LAMBDA newReport :
        ~\E existingReport \in SeqToSet(reports) :
            String(existingReport) = String(newReport))

\* the modal's Add button with the reports ids selected
handleAddReports(ids) ==
    /\ ~isLoadingConfig
    /\ LET uniqueNewReports == UniqueNewReports(selectedReports, ReportSeq(ids))
           updatedReports == selectedReports \o uniqueNewReports
           updatedOrder == visualOrder
                           \o [i \in DOMAIN uniqueNewReports |->
                                  getDynamicVisualId(uniqueNewReports[i])]
           save == saveDashboardConfig(idToken)
           request == Request(updatedOrder, updatedReports, "handleAddReports")
       IN  /\ uniqueNewReports # <<>>
           /\ saveRequests' = IF save.sent THEN Append(saveRequests, request)
                              ELSE saveRequests
           /\ lastSent' = IF save.sent THEN request ELSE lastSent
           /\ Commit(Event("addReports", "", "", "", save.promise, ""),
                     selectedCategory, selectedStore, embedData, isLoadingConfig,
                     updatedOrder, updatedReports, visualRendered, dynamicVisualsRendered,
                     <<>>)
    /\ UNCHANGED <<loadSide, filterSide, timers, isSavingConfig, saveError, burstOrder,
                   elapsed, burstCalls, nReorders>>

\* TickMs pass and no timeout is due
Tick ==
    /\ timers # <<>>
    /\ \A i \in DOMAIN timers : timers[i].remaining > 0
    /\ timers' = [i \in DOMAIN timers |->
                     [timers[i] EXCEPT !.remaining = timers[i].remaining - TickMs]]
    /\ elapsed' = IF elapsed + TickMs > DebounceWait THEN DebounceWait
                  ELSE elapsed + TickMs
    /\ Commit(Event("tick", "", "", "", "", ""),
              selectedCategory, selectedStore, embedData, isLoadingConfig, visualOrder,
              selectedReports, visualRendered, dynamicVisualsRendered, <<>>)
    /\ UNCHANGED <<loadSide, filterSide, saveRequests, lastSent, isSavingConfig, saveError,
                   burstOrder, burstCalls, nReorders>>

\* a due timeout runs the debounced function: the save request goes out, or,
\* saveDashboardConfig having thrown before its fetch, the function goes on
\* at once to its catch and finally
TimerFires ==
    /\ \E i \in DOMAIN timers, save \in {saveDashboardConfig(idToken)} :
          LET request == Request(timers[i].order, timers[i].reports, "debouncedSave")
          IN  /\ timers[i].remaining = 0
              /\ timers' = SubSeq(timers, 1, i - 1) \o SubSeq(timers, i + 1, Len(timers))
              /\ saveRequests' = IF save.sent THEN Append(saveRequests, request)
                                 ELSE saveRequests
              /\ lastSent' = IF save.sent THEN request ELSE lastSent
              /\ isSavingConfig' = IF mounted THEN save.sent ELSE isSavingConfig
              /\ saveError' = IF mounted THEN ~save.sent ELSE saveError
    /\ burstCalls' = 0
    /\ Commit(Event("timerFires", "", "", "", saveDashboardConfig(idToken).promise, ""),
              selectedCategory, selectedStore, embedData, isLoadingConfig, visualOrder,
              selectedReports, visualRendered, dynamicVisualsRendered, <<>>)
    /\ UNCHANGED <<loadSide, filterSide, burstOrder, elapsed, nReorders>>

\* a variant that restores the default layout when the save failed: C21 does
\* not hold of it
SaveSettlesRollback(i, ok) ==
    /\ i \in DOMAIN saveRequests
    /\ saveRequests' = SubSeq(saveRequests, 1, i - 1)
                        \o SubSeq(saveRequests, i + 1, Len(saveRequests))
    /\ saveError' = IF saveRequests[i].via = "debouncedSave" /\ ~ok THEN TRUE ELSE saveError
    /\ isSavingConfig' = IF saveRequests[i].via = "debouncedSave" THEN FALSE
                          ELSE isSavingConfig
    /\ Commit(Event("saveSettles", saveRequests[i].via, "", "",
                    IF ok THEN "ok" ELSE "failed", ""),
              selectedCategory, selectedStore, embedData, isLoadingConfig,
              IF ok THEN visualOrder ELSE DEFAULT_VISUAL_ORDER,
              IF ok THEN selectedReports ELSE <<>>,
              visualRendered, dynamicVisualsRendered, <<>>)
    /\ UNCHANGED <<loadSide, filterSide, timers, lastSent, burstOrder, elapsed, burstCalls, nReorders>>

\* the answer to the i-th unanswered save request arrives; the debounced
\* function goes on after its await, the save of handleAddReports only logs
SaveSettles(i, ok) ==
    /\ i \in DOMAIN saveRequests
    /\ saveRequests' = SubSeq(saveRequests, 1, i - 1)
                        \o SubSeq(saveRequests, i + 1, Len(saveRequests))
    /\ saveError' = IF mounted /\ saveRequests[i].via = "debouncedSave" /\ ~ok THEN TRUE
                     ELSE saveError
    /\ isSavingConfig' = IF mounted /\ saveRequests[i].via = "debouncedSave" THEN FALSE
                          ELSE isSavingConfig
    /\ Commit(Event("saveSettles", saveRequests[i].via, "", "",
                    IF ok THEN "ok" ELSE "failed", ""),
              selectedCategory, selectedStore, embedData, isLoadingConfig, visualOrder,
              selectedReports, visualRendered, dynamicVisualsRendered, <<>>)
    /\ UNCHANGED <<loadSide, filterSide, timers, lastSent, burstOrder, elapsed, burstCalls, nReorders>>

\* the route changes and React unmounts the Dashboard: the cleanup of the
\* data exposure effect deletes the exposed objects; no timeout is cleared
\* and no request is aborted, and a setState of a later completion is dropped
Unmount ==
    /\ mounted
    /\ mounted' = FALSE
    /\ powerBIData' = NoSnapshot
    /\ lastEvent' = Event("unmount", "", "", "", "", "")
    /\ lastCalls' = <<>>
    /\ UNCHANGED <<embedData, isLoadingConfig, selectedCategory, selectedStore, visualOrder,
                   selectedReports, staticVisualsEmbedded, visualInstances,
                   dynamicVisualInstances, closure, visualRendered,
                   dynamicVisualsRendered, visualsLoaded, activeFilters, lastCompletion,
                   racedWrite, embeds, rejecting, idToken, user, pendingLoads, serverSide, filterSide,
                   saveSide>>

----------------------------------------------------------------------------
(* Specifications *)

\* the filter engine: embedding, selections, clears, dropdowns, reset
NextFilter ==
    \/ \E o \in LoadOutcomes : ConfigLoaded(o)
    \/ EmbedDataFetched
    \/ \E k \in AllKeys : Loaded(k)
    \/ \E k \in AllKeys, shape \in ShapeSample :
          \E sel \in SelectionsOf(shape) : Select(k, shape, sel)
    \/ \E k \in AllKeys : Clear(k)
    \/ ClearResumes
    \/ \E v \in CategoryDropdownSample : handleCategoryChange(v)
    \/ \E v \in SegmentDropdownSample : handleStoreChange(v)
    \/ ResetAll

SpecFilter == Init /\ [][NextFilter]_vars

\* readiness: loading, embedding, rendered events, added reports, reorders
NextReady ==
    \/ \E o \in LoadOutcomes : ConfigLoaded(o)
    \/ EmbedDataFetched
    \/ \E k \in AllKeys : Rendered(k)
    \/ \E ids \in SUBSET AddableReports : handleAddReports(ids)
    \/ \E d \in ReadyDragSample : handleDragEnd(d[1], d[2])

SpecReady == Init /\ [][NextReady]_vars

\* the order list and its persistence
NextOrder ==
    \/ \E o \in LoadOutcomes : ConfigLoaded(o)
    \/ \E ids \in SUBSET AddableReports : handleAddReports(ids)
    \/ \E d \in DragSample : handleDragEnd(d[1], d[2])
    \/ Tick
    \/ TimerFires
    \/ \E i \in 1..(MaxReorders + MaxReports), ok \in BOOLEAN : SaveSettles(i, ok)

SpecOrder == Init /\ [][NextOrder]_vars

\* the order list under every drag gesture
NextReorder ==
    \/ \E o \in LoadOutcomes : ConfigLoaded(o)
    \/ \E ids \in SUBSET AddableReports : handleAddReports(ids)
    \/ \E d \in DragAll : handleDragEnd(d[1], d[2])

SpecReorder == Init /\ [][NextReorder]_vars

\* the order list and its persistence while the layout API answers every
\* save request with success
NextConverge ==
    \/ \E o \in LoadOutcomes : ConfigLoaded(o)
    \/ \E ids \in SUBSET AddableReports : handleAddReports(ids)
    \/ \E d \in DragSample : handleDragEnd(d[1], d[2])
    \/ Tick
    \/ TimerFires
    \/ \E i \in 1..(MaxReorders + MaxReports) : SaveSettles(i, TRUE)

SpecConverge == Init /\ [][NextConverge]_vars

\* a saved configuration whose layout API hands the report ids back as strings
StringIdConfig ==
    [kind |-> "config",
     order |-> <<"categoryVisual", "dynamic-1", "storeVisual", "salesByStoreVisual",
                 "salesBySegmentVisual">>,
     reports |-> <<StringId(1)>>]

\* the answers of GET /user/dashboard explored: none saved, and a saved
\* configuration with the report id as a number and as a string
UniqueLoadSample == {o \in LoadOutcomes : o.kind # "error"} \cup {StringIdConfig}

\* what the user ticks in the modal before Add
UniqueAddSample == {{1}, {1, 2}}

\* drags of a static and of an added widget
UniqueDragSample ==
    { <<"categoryVisual", "salesByStoreVisual">>, <<"dynamic-2", "dynamic-1">> }

\* the order list under loads and reloads of the configuration, with report
\* ids of either type, appends and reorders
NextUnique ==
    \/ \E o \in UniqueLoadSample : ConfigLoaded(o)
    \/ UserChanged
    \/ \E ids \in UniqueAddSample : handleAddReports(ids)
    \/ \E d \in UniqueDragSample : handleDragEnd(d[1], d[2])

SpecUnique == Init /\ [][NextUnique]_vars

\* The fan-outs while some handles reject every setFilters and removeFilters
\* call made on them.
RejectingSample == {{"store"}, {"category", "dynamic-1"}, AllKeys}

InitFanOut ==
    /\ idToken = TRUE
    /\ InitState
    /\ rejecting \in RejectingSample
    /\ lastEvent = NoEvent

FanOutSelections == {<<"Store", "Store", "SharePoint">>, <<"Geo", "City", "Xyz">>}

NextFanOut ==
    \/ \E o \in LoadOutcomes : ConfigLoaded(o)
    \/ EmbedDataFetched
    \/ \E k \in AllKeys : Loaded(k)
    \/ \E k \in AllKeys, sel \in FanOutSelections : Select(k, "ok", sel)
    \/ \E k \in AllKeys : Clear(k)
    \/ ClearResumes
    \/ handleCategoryChange("Abbas")
    \/ handleStoreChange("Blue")
    \/ ResetAll

SpecFanOut == InitFanOut /\ [][NextFanOut]_vars

\* embedding under reloads of the configuration, added reports, reorders and
\* changes of the shared state
EmbedDragSample ==
    { <<"categoryVisual", "salesByStoreVisual">>, <<"dynamic-1", "storeVisual">> }

NextEmbed ==
    \/ \E o \in LoadOutcomes : ConfigLoaded(o)
    \/ UserChanged
    \/ EmbedDataFetched
    \/ Loaded("category")
    \/ handleAddReports({1})
    \/ \E d \in EmbedDragSample : handleDragEnd(d[1], d[2])
    \/ handleCategoryChange("Abbas")

SpecEmbed == Init /\ [][NextEmbed]_vars

\* the exposed snapshot under everything its effect depends on: loads and
\* reloads, the embed data, selections and clears on the category visual, the
\* segment dropdown, the reset, added reports and reorders
NextSnapshot ==
    \/ \E o \in LoadOutcomes : ConfigLoaded(o)
    \/ UserChanged
    \/ EmbedDataFetched
    \/ Loaded("category")
    \/ Select("category", "ok", <<"Store", "Store", "SharePoint">>)
    \/ Clear("category")
    \/ ClearResumes
    \/ handleStoreChange("Blue")
    \/ ResetAll
    \/ handleAddReports({1})
    \/ \E d \in EmbedDragSample : handleDragEnd(d[1], d[2])

SpecSnapshot == Init /\ [][NextSnapshot]_vars

\* the lifecycle flags under everything that embeds, with the rendered events
\* of a static and of an added visual
NextLifecycle ==
    \/ \E o \in LoadOutcomes : ConfigLoaded(o)
    \/ UserChanged
    \/ EmbedDataFetched
    \/ \E k \in {"category", "dynamic-1"} : Rendered(k)
    \/ handleAddReports({1})
    \/ \E d \in EmbedDragSample : handleDragEnd(d[1], d[2])
    \/ handleCategoryChange("Abbas")

SpecLifecycle == Init /\ [][NextLifecycle]_vars

\* selections that write a slot one after the other: two sources of the
\* category slot, values that name an alias, no option and a segment option
LastWriteSources == {"category", "salesByStore"}
LastWriteSelections ==
    {<<"Store", "Store", "SharePoint">>, <<"Store", "Store", "Xyz">>,
     <<"Product", "Segment", "Blue">>}

\* one selection more than MaxSelects, with the clear handlers and the segment
\* dropdown that run applyFilters between and after them
NextLastWrite ==
    \/ \E o \in {l \in LoadOutcomes : l.kind = "none"} : ConfigLoaded(o)
    \/ EmbedDataFetched
    \/ \E k \in AllKeys : Loaded(k)
    \/ \E k \in LastWriteSources, sel \in LastWriteSelections :
          nSelects <= MaxSelects /\ dataSelected(k, "ok", sel)
    \/ \E k \in LastWriteSources : Clear(k)
    \/ ClearResumes
    \/ handleStoreChange("Blue")

SpecLastWrite == Init /\ [][NextLastWrite]_vars

\* the order list and its persistence for a signed-in user whose stored
\* record may lack the token
InitToken ==
    /\ idToken \in BOOLEAN
    /\ InitState
    /\ rejecting = {}
    /\ lastEvent = NoEvent

NextToken ==
    \/ \E o \in LoadOutcomes : ConfigLoaded(o)
    \/ handleAddReports({1})
    \/ \E d \in EmbedDragSample : handleDragEnd(d[1], d[2])
    \/ Tick
    \/ TimerFires
    \/ \E i \in 1..(MaxReorders + MaxReports), ok \in BOOLEAN : SaveSettles(i, ok)

SpecToken == InitToken /\ [][NextToken]_vars

\* the Dashboard until and after its unmount: the handlers run while it is
\* mounted, the clock, the timeouts and the answers go on afterwards
NextTeardown ==
    \/ \E o \in LoadOutcomes : ConfigLoaded(o)
    \/ mounted /\ EmbedDataFetched
    \/ mounted /\ handleAddReports({1})
    \/ mounted /\ \E d \in EmbedDragSample : handleDragEnd(d[1], d[2])
    \/ Unmount
    \/ Tick
    \/ TimerFires
    \/ \E i \in 1..(MaxReorders + MaxReports), ok \in BOOLEAN : SaveSettles(i, ok)

SpecTeardown == Init /\ [][NextTeardown]_vars

\* loads and reloads of the configuration, with or without a token, between
\* changes of the layout
NextLoad ==
    \/ \E o \in LoadOutcomes : ConfigLoaded(o)
    \/ UserChanged
    \/ EmbedDataFetched
    \/ handleAddReports({1})
    \/ \E d \in EmbedDragSample : handleDragEnd(d[1], d[2])

SpecLoad == InitToken /\ [][NextLoad]_vars

\* The places of handleVisualSelection that turn the equals value of a
\* selection into a filter value, each on its own: a raw value arrives, and
\* one of them is applied to it under a random draw r.
RawSample ==
    valueMapKeys \cup msProducts \cup SeqToSet(options)
        \cup {"Abbas", "Aliqui", "Blue", "Xyz", "", "constructor", "toString"}

RandomDraws == 0..(RandomDen - 1)

allButEvent ==
    <<embedData, isLoadingConfig, selectedCategory, selectedStore, visualOrder,
      selectedReports, staticVisualsEmbedded, visualInstances, dynamicVisualInstances,
      handlersAttached, closure, visualRendered, dynamicVisualsRendered, visualsLoaded,
      activeFilters, pendingRefilter, timers, saveRequests, isSavingConfig,
      saveError, lastCalls, burstOrder, elapsed, burstCalls, nSelects, nEvents,
      nReorders, rejecting, lastCompletion, embeds, lastSent, idToken, powerBIData,
      racedWrite, mounted, pendingLoads, user, serverSide>>

InitNormalize ==
    /\ idToken = TRUE
    /\ InitState
    /\ rejecting = {}
    /\ \E raw \in RawSample : lastEvent = [NoEvent EXCEPT !.type = "equals", !.raw = raw]

\* getStandardizedValue(raw)
Standardize(r) ==
    /\ lastEvent.type = "equals"
    /\ lastEvent' = [lastEvent EXCEPT !.type = "getStandardizedValue",
                                      !.value = getStandardizedValue(lastEvent.raw, r)]
    /\ UNCHANGED allButEvent

\* the inline replacements on raw
InlineNormalize(r) ==
    /\ lastEvent.type = "equals"
    /\ lastEvent' = [lastEvent EXCEPT !.type = "inline",
                                      !.value = InlineReplace(lastEvent.raw, r)]
    /\ UNCHANGED allButEvent

\* the static branch: getStandardizedValue on the value the inline
\* replacements left, which is kept in prev
StaticNormalize(r1, r2) ==
    /\ lastEvent.type = "equals"
    /\ lastEvent' = [lastEvent EXCEPT
                        !.type = "static",
                        !.prev = InlineReplace(lastEvent.raw, r1),
                        !.value = getStandardizedValue(InlineReplace(lastEvent.raw, r1), r2)]
    /\ UNCHANGED allButEvent

\* the filter of the salesBySegment branch, built while raw is the equals value
SegmentDraw(r) ==
    /\ lastEvent.type = "equals"
    /\ LET f == SalesBySegmentSelection(r).filterToApply.filter
       IN  lastEvent' = [lastEvent EXCEPT !.type = "salesBySegment",
                                          !.table = f.table, !.column = f.column,
                                          !.value = f.value]
    /\ UNCHANGED allButEvent

NextNormalize ==
    \/ \E r \in RandomDraws : Standardize(r)
    \/ \E r \in RandomDraws : InlineNormalize(r)
    \/ \E r \in RandomDraws : SegmentDraw(r)
    \/ \E r1, r2 \in RandomSample : StaticNormalize(r1, r2)

SpecNormalize == InitNormalize /\ [][NextNormalize]_vars

----------------------------------------------------------------------------
(* Claims *)

\* the registry key under which the handle of the widget with this id is stored
KeyOf(id) == IF IsStatic(id) THEN staticVisualConfigs[id] ELSE id

\* the keys of the registered widgets
Registered == visualInstances \cup dynamicVisualInstances

\* whether the last step issued this call on the handle stored under k
Issued(op, k, list, via) ==
    \E i \in DOMAIN lastCalls : lastCalls[i] = Call(op, k, list, via)

\* C1, as stated: the single-filter propagation of a selection on a widget W
\* never calls setFilters on W's own embed handle.
C1_SelectionSkipsSource ==
    lastEvent.type = "select" =>
        \A i \in DOMAIN lastCalls :
            lastCalls[i].via = "applyFilterToVisuals"
                => lastCalls[i].key # KeyOf(lastEvent.source)

\* C2, as stated: when a selection is cleared on a widget W, removeFilters is
\* called on every other registered widget and never on W's own embed handle.
C2_ClearSkipsSource ==
    lastEvent.type = "clear" =>
        /\ \A k \in Registered \ {KeyOf(lastEvent.source)} :
              Issued("removeFilters", k, <<>>, "clearCrossFilters")
        /\ \A i \in DOMAIN lastCalls :
              lastCalls[i].via = "clearCrossFilters"
                  => lastCalls[i].key # KeyOf(lastEvent.source)

\* every value the normalisation of a raw value can give
Normalized(raw) == {getStandardizedValue(raw, r) : r \in 0..(RandomDen - 1)}

\* after a selection with target (Store, Store): the category slot holds a
\* normalised value of the raw one, and every registered widget but the
\* source got setFilters with the one descriptor {Store, Store, that value}
StoreSelectionPropagated ==
    /\ selectedCategory \in Normalized(lastEvent.raw)
    /\ \A k \in Registered \ {KeyOf(lastEvent.source)} :
          Issued("setFilters", k,
                 <<[table |-> "Store", column |-> "Store", value |-> selectedCategory]>>,
                 "applyFilterToVisuals")

StoreSelection ==
    lastEvent.type = "select" /\ lastEvent.table = "Store" /\ lastEvent.column = "Store"

C4_ClearResetsCategory ==
    (/\ lastEvent.type = "clear"
     /\ KeyOf(lastEvent.source) \in {"category", "salesByStore"}
     /\ lastEvent.preCategory # All) =>
        /\ selectedCategory = All
        /\ \A k \in Registered \ {KeyOf(lastEvent.source)} :
              Issued("removeFilters", k, <<>>, "clearCrossFilters")
        /\ selectedStore # All =>
              \A k \in Registered :
                  Issued("setFilters", k,
                         <<createFilter("Product", "Segment", selectedStore)>>,
                         "applyFilters")

\* the program's own state, without the history and the counters of the model
ProgramState ==
    <<embedData, isLoadingConfig, selectedCategory, selectedStore, visualOrder,
      selectedReports, staticVisualsEmbedded, visualInstances, dynamicVisualInstances,
      handlersAttached, closure, visualRendered, dynamicVisualsRendered, visualsLoaded,
      activeFilters, pendingRefilter, timers, saveRequests, isSavingConfig, saveError>>

\* C5: after resetAllFilters and the effects it triggers both slots are All
\* and no registered widget has an active filter; a second reset right after
\* the first leaves the program's state as the first left it.
C5_ClearAllIdempotent ==
    /\ [](lastEvent.type = "reset" =>
              /\ selectedCategory = All
              /\ selectedStore = All
              /\ \A k \in Registered : activeFilters[k] = <<>>)
    /\ [][(lastEvent.type = "reset" /\ lastEvent'.type = "reset")
              => ProgramState' = ProgramState]_vars

\* C5 happens: a reset right after a reset that cleared a concrete state
C5_Witness ==
    /\ lastEvent.type = "reset"
    /\ lastEvent.prev = "reset"
    /\ nSelects = 1
    /\ "dynamic-1" \in Registered

\* whether the widget with this id has reported rendered
HasRendered(id) ==
    IF IsStatic(id) THEN staticVisualConfigs[id] \in visualRendered
    ELSE id \in dynamicVisualsRendered

\* the ids of the Order List that have not reported rendered
Pending == {id \in SeqToSet(visualOrder) : ~HasRendered(id)}

\* C6: the published flag is true iff the configuration has been loaded and
\* every widget whose id is in the Order List has rendered.
C6_ReadyIff ==
    visualsLoaded <=> (~isLoadingConfig /\ Pending = {})

\* C6 happens: ready with a dynamic widget in the Order List
C6_Witness ==
    /\ visualsLoaded
    /\ "dynamic-1" \in SeqToSet(visualOrder)
    /\ lastEvent.type = "dragEnd"

\* C7: the flag is false while a widget of the Order List is pending; it turns
\* true exactly in the step of the rendered event of the last pending widget;
\* adding a report, whose widget has not rendered, makes it false.
C7_ReadyTransitions ==
    /\ [](Pending # {} => ~visualsLoaded)
    /\ [][/\ (~visualsLoaded /\ visualsLoaded') <=>
                (/\ lastEvent'.type = "rendered"
                 /\ ~isLoadingConfig
                 /\ Pending = {SourceIdOf(lastEvent'.source)})
          /\ lastEvent'.type = "addReports" => ~visualsLoaded']_vars

\* C7 happens: ready again on the rendered event of an added report's widget,
\* after adding the report had taken readiness away
C7_Witness ==
    /\ lastEvent.type = "rendered"
    /\ lastEvent.source = "dynamic-1"
    /\ ~lastEvent.preReady
    /\ visualsLoaded
    /\ visualOrder[Len(visualOrder)] = "dynamic-1"
    /\ Len(saveRequests) = 1

\* C8: at most one timeout is pending, and one is pending exactly while calls
\* of the burst wait to be sent; the timeout runs only when the quiet period
\* has passed since the last call, and it sends one request, which carries
\* the order of the last reorder of the burst.
C8_Debounce ==
    /\ [](/\ Len(timers) <= 1
          /\ (timers # <<>>) <=> (burstCalls > 0))
    /\ [][lastEvent'.type = "timerFires" =>
              /\ burstCalls >= 1
              /\ elapsed = DebounceWait
              /\ timers' = <<>>
              /\ burstCalls' = 0
              /\ \E reports \in {SubSeq(selectedReports, 1, n) :
                                    n \in 0..Len(selectedReports)} :
                    saveRequests' = Append(saveRequests,
                                           Request(burstOrder, reports, "debouncedSave"))]_vars

\* C8 happens: a burst of two reorders has been sent as one request
C8_Witness ==
    /\ lastEvent.type = "timerFires"
    /\ lastEvent.preBurst = 2
    /\ Len(saveRequests) = 1

\* C9: for two distinct ids a and b of the Order List, dragging a over b and
\* then a over the id that now stands where a stood gives the list back.
C9_ReorderRoundTrip ==
    \A a \in SeqToSet(visualOrder), b \in SeqToSet(visualOrder) :
        a # b =>
            LET moved == DragResult(visualOrder, a, b)
                back == moved[IndexOf(visualOrder, a)]
            IN  DragResult(moved, a, back) = visualOrder

\* C9 happens: the second of two drags moved the category visual back over
\* the store visual and the list is the default one again
C9_Witness ==
    /\ lastEvent.type = "dragEnd"
    /\ lastEvent.source = "categoryVisual"
    /\ lastEvent.raw = "storeVisual"
    /\ nReorders = 2
    /\ visualOrder = DEFAULT_VISUAL_ORDER

\* C10, as stated: the category slot is All or a category option and the
\* segment slot is All or a segment option.
C10_SlotVocabulary ==
    /\ selectedCategory \in {All} \cup CategoryOptions
    /\ selectedStore \in {All} \cup SegmentOptions

\* the (table, column) pairs that are mapped to a slot
ManagedTargets ==
    {<<"Store", "Store">>, <<"Product", "Product">>, <<"Product", "Segment">>}

\* a selection whose payload passed the validation
ValidSelection == lastEvent.type = "select" /\ lastEvent.table # ""

\* C11, as stated: a valid selection whose (table, column) is not mapped to
\* a slot, from any source widget, changes neither slot, and the direct
\* descriptor {table, column, value} is propagated to the other widgets.
C11_UnhandledPairing ==
    (ValidSelection /\ <<lastEvent.table, lastEvent.column>> \notin ManagedTargets) =>
        /\ selectedCategory = lastEvent.preCategory
        /\ selectedStore = lastEvent.preStore
        /\ \E v \in Normalized(lastEvent.raw) :
              \A k \in Registered \ {KeyOf(lastEvent.source)} :
                  Issued("setFilters", k,
                         <<[table |-> lastEvent.table, column |-> lastEvent.column,
                            value |-> v]>>,
                         "applyFilterToVisuals")

\* C12: a selection without data points, without identity[0].target.table or
\* .column, or without equals is dropped: handleVisualSelection changes
\* neither slot and no call is made on any widget.
C12_MalformedDropped ==
    (lastEvent.type = "select" /\ lastEvent.table = "") =>
        /\ selectedCategory = lastEvent.preCategory
        /\ selectedStore = lastEvent.preStore
        /\ lastCalls = <<>>
        /\ \A sel \in SelectionSample, r \in RandomSample :
              handleVisualSelection(lastEvent.source, "noDataPoints",
                                    sel[1], sel[2], sel[3], r, r, r)
                  = Outcome(selectedCategory, selectedStore, NoFilter)

\* C12 happens: a payload without equals arrives while a slot is concrete
C12_Witness ==
    /\ lastEvent.type = "select"
    /\ lastEvent.raw = "noEquals"
    /\ lastEvent.preCategory = "Abbas"
    /\ lastEvent.source = "categoryVisual"
    /\ "store" \in Registered


\* the fallback set of the Value Normalizer
FallbackSet == SeqToSet(options)

\* C13, as stated: the normalizer returns the mapped value for a key of the
\* alias table, a member of the fallback set for an ambiguous value, and the
\* raw value itself for every other string.
C13_Normalizer ==
    lastEvent.type = "getStandardizedValue" =>
        /\ lastEvent.raw \in valueMapKeys => lastEvent.value = valueMap[lastEvent.raw]
        /\ lastEvent.raw \in msProducts => lastEvent.value \in FallbackSet
        /\ lastEvent.raw \notin valueMapKeys \cup msProducts => lastEvent.value = lastEvent.raw

\* the values the salesBySegment branch can put into its filter
SegmentDrawValues ==
    {SalesBySegmentSelection(r).filterToApply.filter.value : r \in RandomDraws}

\* C14, as stated: a selection on salesBySegment produces a filter on the
\* fixed pair (Product, Product) whose value is drawn from the fallback set
\* of the Value Normalizer -- every member of that set can come out and
\* nothing else can -- whatever the selected value was.
C14_AlwaysRandom ==
    lastEvent.type = "salesBySegment" =>
        /\ lastEvent.table = "Product" /\ lastEvent.column = "Product"
        /\ lastEvent.value \in FallbackSet
        /\ SegmentDrawValues = FallbackSet

CategoryTargets == {<<"Store", "Store">>, <<"Product", "Product">>}
SegmentTargets == {<<"Product", "Segment">>}

SharedStateList == FiltersToApply(selectedCategory, selectedStore)

ConcreteSlots ==
    (IF selectedCategory # All THEN 1 ELSE 0) + (IF selectedStore # All THEN 1 ELSE 0)

\* the two places applyFilters is called from
ApplyFiltersCallers == {"applyFilters", "clearCrossFilters.applyFilters"}

RanVia(via) == \E i \in DOMAIN lastCalls : lastCalls[i].via = via

\* C16, as stated: the list applySharedState builds has one descriptor per
\* concrete slot of the shared state, and whenever applySharedState has run,
\* every registered widget was called with setFilters and that full list --
\* after a selection changed a slot, the selecting widget included.
C16_ApplySharedState ==
    /\ Len(SharedStateList) = ConcreteSlots
    /\ \A via \in ApplyFiltersCallers :
          RanVia(via) => \A k \in Registered : Issued("setFilters", k, SharedStateList, via)
    /\ ( /\ ValidSelection
         /\ selectedCategory # lastEvent.preCategory \/ selectedStore # lastEvent.preStore )
         => Issued("setFilters", KeyOf(lastEvent.source), SharedStateList, "applyFilters")

\* the keys the last step called through a fan-out
CalledVia(via) ==
    {lastCalls[i].key : i \in {j \in DOMAIN lastCalls : lastCalls[j].via = via}}

\* the slots as the handler of the last event set them
HandlerSlots ==
    LET e == lastEvent
        pre == <<e.preCategory, e.preStore>>
    IN  CASE e.type = "reset" -> <<All, All>>
          [] e.type = "categoryChange" -> <<e.value, e.preStore>>
          [] e.type = "storeChange" -> <<e.preCategory, e.value>>
          [] e.type = "clear" ->
                LET seen == closure[KeyOf(e.source)]
                    c == clearCrossFilters(e.source, seen.category, seen.store)
                IN  <<IF c.resetCategory THEN All ELSE e.preCategory,
                      IF c.resetStore THEN All ELSE e.preStore>>
          [] e.type = "select" /\ e.table # "" ->
                IF e.source = "salesBySegmentVisual" THEN <<e.value, e.preStore>>
                ELSE IF <<e.table, e.column>> \in CategoryTargets THEN <<e.value, e.preStore>>
                ELSE IF <<e.table, e.column>> \in SegmentTargets THEN <<e.preCategory, e.value>>
                ELSE pre
          [] OTHER -> pre

\* C17: whichever handles reject, each fan-out has called every one of its
\* targets (the single filter of a selection, the removal of a clear, the
\* removal of the reset, and applyFilters run by the effect or by a resumed
\* clear), no fan-out completed by raising, and the two slots are what the
\* handler set.
C17_FanOutIsolation ==
    /\ lastEvent.type = "select" /\ lastEvent.value # NoValue =>
          CalledVia("applyFilterToVisuals") = SingleFilterTargets(Registered, lastEvent.source)
    /\ lastEvent.type = "clear" =>
          CalledVia("clearCrossFilters") = ClearTargets(Registered, lastEvent.source)
    /\ lastEvent.type = "reset" => CalledVia("resetAllFilters") = Registered
    /\ lastEvent.type = "refilter" => CalledVia("clearCrossFilters.applyFilters") = Registered
    /\ ( /\ embedData /\ ~isLoadingConfig
         /\ selectedCategory # lastEvent.preCategory \/ selectedStore # lastEvent.preStore )
          => CalledVia("applyFilters") = Registered
    /\ lastCompletion # "rejected"
    /\ <<selectedCategory, selectedStore>> = HandlerSlots

\* a selection whose single filter was rejected by one target and then sent on
\* to a later target, with the effect's applyFilters after it
C17_Witness ==
    /\ lastEvent.type = "select" /\ lastEvent.value = "Barba"
    /\ rejecting = {"category", "dynamic-1"}
    /\ \E i, j \in DOMAIN lastCalls :
          /\ i < j
          /\ lastCalls[i].via = "applyFilterToVisuals" /\ lastCalls[i].key \in rejecting
          /\ lastCalls[j].via = "applyFilterToVisuals" /\ lastCalls[j].key \notin rejecting
    /\ \E i \in DOMAIN lastCalls :
          lastCalls[i].via = "applyFilters" /\ lastCalls[i].key \in rejecting

\* the widgets whose binding owns a slot
CategoryOwners == {"category", "salesByStore"}
SegmentOwners == {"store", "salesBySegment"}

\* C18: a selection-cleared event from widget W changes no slot but the one W
\* owns. A widget that owns the category slot leaves the segment slot as it
\* was, a widget that owns the segment slot leaves the category slot as it
\* was, and a dynamic widget, which owns none, leaves both; the owned slot is
\* reset to All when the handler sees it concrete and is left alone otherwise.
C18_ClearFrame ==
    lastEvent.type = "clear" =>
        LET k == KeyOf(lastEvent.source)
            seen == closure[k]
        IN  /\ k \in CategoryOwners =>
                  /\ selectedStore = lastEvent.preStore
                  /\ selectedCategory =
                        IF seen.category # All THEN All ELSE lastEvent.preCategory
            /\ k \in SegmentOwners =>
                  /\ selectedCategory = lastEvent.preCategory
                  /\ selectedStore = IF seen.store # All THEN All ELSE lastEvent.preStore
            /\ k \notin CategoryOwners \cup SegmentOwners =>
                  /\ selectedCategory = lastEvent.preCategory
                  /\ selectedStore = lastEvent.preStore

\* the widget owning the segment slot clears while both slots are concrete:
\* the segment slot is reset and the category slot keeps its value
C18_Witness ==
    /\ lastEvent.type = "clear" /\ lastEvent.source = "storeVisual"
    /\ lastEvent.preCategory = "Barba" /\ lastEvent.preStore = "Blue"
    /\ selectedCategory = "Barba" /\ selectedStore = All

\* C19: powerbi.embed stores a handle at most once under each key, a key
\* holds a handle exactly when it was embedded, and a step never embeds again
\* a key that holds a handle nor drops it -- whatever reloads, added reports,
\* reorders and slot changes re-run the embed effects.
C19_EmbedOnce ==
    /\ [](\A k \in AllKeys : embeds[k] <= 1 /\ (k \in Registered <=> embeds[k] = 1))
    /\ [][\A k \in Registered : k \in Registered' /\ embeds'[k] = embeds[k]]_vars

\* the configuration was loaded again while 'category', embedded and loaded
\* before, holds its handle, and the dynamic visual of the loaded
\* configuration was embedded
C19_Witness ==
    /\ lastEvent.type = "configLoaded" /\ lastEvent.raw = "config"
    /\ "category" \in handlersAttached
    /\ embeds["category"] = 1 /\ embeds["dynamic-1"] = 1

\* C20, as stated: whenever the answer to a save request is a failure, be the
\* request that of a reorder (debouncedSave) or that of added reports
\* (handleAddReports), the save-failed flag is set afterwards.
C20_SaveFailureSurfaced ==
    (lastEvent.type = "saveSettles" /\ lastEvent.raw = "failed") => saveError

\* C21: the step in which a save request fails, be it the debounced save of a
\* reorder or the save of added reports, leaves the Order List and the added
\* reports exactly as they were: what the mutations made of them stays.
C21_NoRollback ==
    [][(lastEvent'.type = "saveSettles" /\ lastEvent'.raw = "failed") =>
           /\ visualOrder' = visualOrder
           /\ selectedReports' = selectedReports]_vars

\* the debounced save of a reorder failed after a report had been added: the
\* list is the reordered one with the added widget at its end
C21_Witness ==
    /\ lastEvent.type = "saveSettles" /\ lastEvent.raw = "failed"
    /\ lastEvent.source = "debouncedSave"
    /\ saveError
    /\ selectedReports = <<NumberId(1)>>
    /\ visualOrder # DEFAULT_VISUAL_ORDER \o <<"dynamic-1">>
    /\ visualOrder[Len(visualOrder)] = "dynamic-1"

\* a reorder or an append changed the Order List in this step
OrderMutated ==
    /\ lastEvent'.type \in {"dragEnd", "addReports"}
    /\ visualOrder' # visualOrder

\* the step scheduled a persistence request for the state it left: the
\* debounce timeout was set anew for it, or a request carrying it was sent
SaveScheduled ==
    \/ timers' = <<Timer(visualOrder', selectedReports')>>
    \/ /\ Len(saveRequests') = Len(saveRequests) + 1
       /\ lastSent'.order = visualOrder'
       /\ lastSent'.reports = selectedReports'

\* no timeout is pending and every request sent has been answered
SavesSettled == timers = <<>> /\ saveRequests = <<>> /\ lastSent # NoRequest

\* C22, as stated: every reorder and every append schedules a persistence
\* request, and once all timeouts have run and all requests have succeeded,
\* the request sent last carried the current Order List and added reports.
C22_PersistenceConverges ==
    /\ [](SavesSettled =>
              /\ lastSent.order = visualOrder
              /\ lastSent.reports = selectedReports)
    /\ [][OrderMutated => SaveScheduled]_vars

NoDuplicates(s) == \A i, j \in DOMAIN s : s[i] = s[j] => i = j

\* the selections the modal can pass to handleAddReports, with the ids as
\* numbers and as strings
AppendRequests ==
    LET asNumbers == {ReportSeq(ids) : ids \in SUBSET ModalReports}
    IN  asNumbers
        \cup {[i \in DOMAIN q |-> [q[i] EXCEPT !.type = "string"]] : q \in asNumbers}

\* the widget ids handleAddReports puts at the end of the order
AppendedIds(reports, newlySelected) ==
    LET u == UniqueNewReports(reports, newlySelected)
    IN  [i \in DOMAIN u |-> getDynamicVisualId(u[i])]

\* the widget ids of the selection that the Order List does not hold yet
NotPresent(order, newlySelected) ==
    LET n == SelectSeq(newlySelected,
                       LAMBDA r : getDynamicVisualId(r) \notin SeqToSet(order))
    IN  [i \in DOMAIN n |-> getDynamicVisualId(n[i])]

\* C23: after any sequence of loads, reorders and appends the Order List holds
\* no id twice; whatever the modal passes, with ids as numbers or as strings,
\* handleAddReports takes exactly the ids the Order List does not hold yet;
\* and an append puts those ids at the end of the list.
C23_OrderUnique ==
    /\ [](/\ NoDuplicates(visualOrder)
          /\ \A q \in AppendRequests :
                AppendedIds(selectedReports, q) = NotPresent(visualOrder, q))
    /\ [][lastEvent'.type = "addReports" =>
              \E q \in AppendRequests :
                  /\ NotPresent(visualOrder, q) # <<>>
                  /\ visualOrder' = visualOrder \o NotPresent(visualOrder, q)]_vars

\* reports were added after a configuration with the string id "1" was
\* loaded: report 1 of the modal was not added again, report 2 went to the end
C23_Witness ==
    /\ lastEvent.type = "addReports"
    /\ selectedReports = <<StringId(1), NumberId(2)>>
    /\ visualOrder[2] = "dynamic-1"
    /\ visualOrder[Len(visualOrder)] = "dynamic-2"
    /\ Len(visualOrder) = Len(DEFAULT_VISUAL_ORDER) + 2

\* the list without the id
Without(items, id) == SelectSeq(items, LAMBDA x : x # id)

\* whether reorder(activeId, overId) is to leave the list alone
ReorderIsNoOp(items, activeId, overId) ==
    \/ activeId = overId
    \/ activeId \notin SeqToSet(items)
    \/ overId \notin SeqToSet(items)

\* the list with activeId taken out and put back at overId's former index
Reordered(items, activeId, overId) ==
    IF ReorderIsNoOp(items, activeId, overId) THEN items
    ELSE LET rest == Without(items, activeId)
             at == IndexOf(items, overId)
         IN  SubSeq(rest, 1, at - 1) \o <<activeId>> \o SubSeq(rest, at, Len(rest))

\* the ids a gesture can name, present or not, and "" for a drop over nothing
GestureIds == StaticIds \cup DynamicIds \cup {""}

\* C24: for every pair of ids that are equal or of which one is absent, the
\* updater of handleDragEnd gives the list back and no save is scheduled, and
\* a drag-end step with such a pair changes neither the list nor the pending
\* saves; every other drag-end step leaves the list with activeId removed and
\* put back at overId's former index -- a permutation in which the other ids
\* keep their relative order -- with the debounce timeout set for it.
C24_ReorderSemantics ==
    /\ [](\A a \in GestureIds, b \in GestureIds :
              ReorderIsNoOp(visualOrder, a, b) =>
                  /\ DragResult(visualOrder, a, b) = visualOrder
                  /\ ~DragSaves(visualOrder, a, b))
    /\ [][lastEvent'.type = "dragEnd" =>
              LET a == lastEvent'.source
                  b == lastEvent'.raw
              IN  IF ReorderIsNoOp(visualOrder, a, b)
                  THEN /\ visualOrder' = visualOrder
                       /\ timers' = timers
                       /\ saveRequests' = saveRequests
                  ELSE /\ visualOrder' = Reordered(visualOrder, a, b)
                       /\ visualOrder'[IndexOf(visualOrder, b)] = a
                       /\ Len(visualOrder') = Len(visualOrder)
                       /\ Without(visualOrder', a) = Without(visualOrder, a)
                       /\ timers' = <<Timer(visualOrder', selectedReports)>>]_vars

\* the last widget was dragged over the first one, two places away and more:
\* it stands first and the others follow in their former order
C24_Witness ==
    /\ lastEvent.type = "dragEnd"
    /\ lastEvent.source = "salesBySegmentVisual" /\ lastEvent.raw = "categoryVisual"
    /\ visualOrder = <<"salesBySegmentVisual", "categoryVisual", "storeVisual",
                       "salesByStoreVisual", "dynamic-1">>
    /\ timers # <<>>

\* the steps in which saveDashboardConfig is called
SaveCalled == lastEvent'.type \in {"timerFires", "addReports"}

\* C25: when getToken() gives no token, a call of saveDashboardConfig, from
\* the debounced save or from handleAddReports, sends no PUT and its promise
\* is rejected, never fulfilled or left pending; the debounced save then ends
\* with the save-failed flag set and the saving flag cleared. With a token the
\* PUT goes out.
C25_NoTokenNoSave ==
    [][SaveCalled =>
          IF idToken
          THEN /\ Len(saveRequests') = Len(saveRequests) + 1
               /\ lastEvent'.raw = "pending"
          ELSE /\ saveRequests' = saveRequests
               /\ lastSent' = lastSent
               /\ lastEvent'.raw = "rejected"
               /\ lastEvent'.type = "timerFires" => saveError' /\ ~isSavingConfig']_vars

\* without a token, the timeout of a reorder ran after a report had been
\* added: nothing was ever sent and the failure of the reorder's save is flagged
C25_Witness ==
    /\ ~idToken
    /\ lastEvent.type = "timerFires" /\ lastEvent.raw = "rejected"
    /\ selectedReports = <<NumberId(1)>>
    /\ saveRequests = <<>> /\ lastSent = NoRequest
    /\ saveError /\ ~isSavingConfig

\* the ids of the visuals the snapshot lists, in its order
SnapshotIds == [i \in DOMAIN powerBIData.visuals |-> powerBIData.visuals[i].id]

\* C26: in every state the program rests in -- after a propagation, a change
\* of a slot, a reorder, an append, a load -- the exposed snapshot, when there
\* is one, lists the (Store, Store) filter with the current category slot and
\* the (Product, Segment) filter with the current segment slot, and lists the
\* visuals in exactly the sequence of the Order List; and there is one exactly
\* when the configuration is loaded, embedData is there and a widget is
\* registered.
C26_SnapshotCurrent ==
    /\ powerBIData.present =>
          /\ powerBIData.filters =
                << [table |-> "Store", column |-> "Store", value |-> selectedCategory],
                   [table |-> "Product", column |-> "Segment", value |-> selectedStore] >>
          /\ SnapshotIds = visualOrder
    /\ powerBIData.present <=> (~isLoadingConfig /\ embedData /\ Registered # {})

\* a reorder after a selection and an added report: the snapshot carries the
\* selected category and the new sequence, the added widget last
C26_Witness ==
    /\ lastEvent.type = "dragEnd"
    /\ powerBIData.present
    /\ powerBIData.filters[1].value = "Barba"
    /\ SnapshotIds[1] = "storeVisual"
    /\ SnapshotIds[Len(SnapshotIds)] = "dynamic-1"
    /\ selectedCategory = "Barba"

\* both prerequisites of embedding are there
PrerequisitesReady == embedData /\ ~isLoadingConfig

\* the widgets of the Order List that hold no handle
Unembedded == {id \in SeqToSet(visualOrder) : KeyOf(id) \notin Registered}

\* C27: a step embeds a widget only into a state where embedData is there and
\* the configuration is loaded -- a commit that runs the embed effects earlier
\* stores no handle -- and whenever both are there every widget of the Order
\* List holds its handle: the widgets skipped earlier are embedded in the very
\* step that makes the second prerequisite ready, no user action needed.
C27_PrerequisiteDeferral ==
    /\ [](/\ ~embedData => Registered = {}
          /\ PrerequisitesReady => Unembedded = {})
    /\ [][(\E k \in AllKeys : embeds'[k] # embeds[k]) =>
              /\ embedData' /\ ~isLoadingConfig'
              /\ lastEvent'.type \in {"configLoaded", "embedData", "addReports"}]_vars

\* the embed data arrived while the configuration was loading and nothing was
\* embedded; the configuration then loaded and its five widgets were embedded
C27_Witness ==
    /\ lastEvent.type = "configLoaded" /\ lastEvent.raw = "config"
    /\ nEvents = 0
    /\ embedData
    /\ \A id \in SeqToSet(visualOrder) : embeds[KeyOf(id)] = 1
    /\ "dynamic-1" \in Registered

\* the value the slot named by racedWrite holds
RacedSlotValue == IF racedWrite.slot = "category" THEN selectedCategory ELSE selectedStore

\* the descriptor applyFilters builds for the later write
RacedFilter ==
    IF racedWrite.slot = "category"
    THEN createFilter("Store", "Store", racedWrite.value)
    ELSE createFilter("Product", "Segment", racedWrite.value)

\* the call carries the descriptor of the later write
SendsRaced(call) ==
    /\ call.op = "setFilters"
    /\ \E i \in DOMAIN call.list : call.list[i] = RacedFilter

\* C28: after two selection events that wrote the same slot one after the
\* other -- the handler reads no result of the calls of the first, which are
\* still in flight -- the slot holds the value of the later selection, and the
\* next applyFilters that runs, whichever caller runs it, calls setFilters with
\* a list that carries that value on every registered visual.
C28_LastWriteWins ==
    racedWrite # NoWrite =>
        /\ RacedSlotValue = racedWrite.value
        /\ RanApplyFilters(lastCalls) =>
              \A k \in Registered :
                 \E i \in DOMAIN lastCalls :
                    /\ lastCalls[i].key = k
                    /\ lastCalls[i].via \in ApplyFiltersCallers
                    /\ SendsRaced(lastCalls[i])

\* C29: no step takes a key out of staticVisualsEmbedded, of visualRendered or
\* of dynamicVisualsRendered -- reloads of the configuration included -- and
\* the embedded flag of a static visual is set once: once the key is flagged
\* no step embeds it again, and a flagged key was embedded exactly once.
C29_FlagsMonotonic ==
    /\ [](\A k \in StaticKeys :
             /\ embeds[k] <= 1
             /\ k \in staticVisualsEmbedded <=> embeds[k] = 1)
    /\ [][/\ staticVisualsEmbedded \subseteq staticVisualsEmbedded'
          /\ visualRendered \subseteq visualRendered'
          /\ dynamicVisualsRendered \subseteq dynamicVisualsRendered'
          /\ \A k \in staticVisualsEmbedded : embeds'[k] = embeds[k]]_vars

\* the four static visuals were embedded, two visuals reported rendered, the
\* configuration was loaded again and every flag is still set
C29_Witness ==
    /\ lastEvent.type = "configLoaded"
    /\ nEvents >= 1
    /\ staticVisualsEmbedded = StaticKeys
    /\ "category" \in visualRendered
    /\ "dynamic-1" \in dynamicVisualsRendered
    /\ \A k \in StaticKeys : embeds[k] = 1

\* the configuration the layout API holds
SavedConfig == CHOOSE o \in LoadOutcomes : o.kind = "config"

\* C30: when loadConfig has settled the loading flag is false, and the Order
\* List and the added reports are those of the stored configuration when the
\* request answered with one, the default order and no report when it answered
\* 404 or failed -- which it always does without a token, whatever the layout
\* API holds -- also on a reload after the layout was changed.
C30_OrderListCreation ==
    lastEvent.type = "configLoaded" =>
        /\ ~isLoadingConfig
        /\ lastEvent.raw \in {"config", "none", "error"}
        /\ ~idToken => lastEvent.raw = "error"
        /\ lastEvent.raw = "config" =>
              /\ visualOrder = SavedConfig.order
              /\ selectedReports = SavedConfig.reports
        /\ lastEvent.raw \in {"none", "error"} =>
              /\ visualOrder = DEFAULT_VISUAL_ORDER
              /\ selectedReports = <<>>

\* a reload without a token after a reorder: back to the default order
C30_Witness ==
    /\ lastEvent.type = "configLoaded" /\ lastEvent.raw = "error"
    /\ ~idToken
    /\ nEvents >= 1
    /\ nReorders >= 1
    /\ visualOrder = DEFAULT_VISUAL_ORDER
    /\ selectedReports = <<>>
    /\ ~isLoadingConfig

\* what the component holds: its state and the published ready flag
ComponentState ==
    <<isLoadingConfig, selectedCategory, selectedStore, visualOrder, selectedReports,
      staticVisualsEmbedded, visualRendered, dynamicVisualsRendered, visualsLoaded,
      isSavingConfig, saveError>>

\* C31: once the component is unmounted no step changes its state or the
\* ready flag and no step sends a save request -- whatever timeout, load or
\* save was pending at the unmount -- and nothing is exposed on window.
C31_TeardownDiscards ==
    /\ [](~mounted => powerBIData = NoSnapshot)
    /\ [][~mounted => /\ ComponentState' = ComponentState
                      /\ lastSent' = lastSent
                      /\ Len(saveRequests') <= Len(saveRequests)]_vars

\* no clear handler is suspended before its applyFilters: every call issued so
\* far has settled and no continuation is pending
Quiescent == pendingRefilter = <<>>

\* the widgets other than the source of the last selection or clear event
NonSource ==
    IF lastEvent.type \in {"select", "clear"}
    THEN Registered \ {KeyOf(lastEvent.source)}
    ELSE Registered

\* C32: after a selection, a clear, a dropdown change or a reset, once nothing
\* is pending, the filter list active on every registered widget other than
\* the source of the event is the list applyFilters builds from the two slots.
C32_QuiescentConsistency ==
    ( /\ lastEvent.type \in {"select", "clear", "refilter", "categoryChange",
                             "storeChange", "reset"}
      /\ Quiescent )
    => \A k \in NonSource : activeFilters[k] = SharedStateList

\* C33: a valid selection on a static widget made while both slots are All,
\* followed at once by a selection-cleared event on that widget, leaves both
\* slots All again -- for every static widget, the always-random one included.
C33_SelectClearRoundTrip ==
    [][( /\ ValidSelection
         /\ IsStatic(lastEvent.source)
         /\ lastEvent.preCategory = All /\ lastEvent.preStore = All
         /\ lastEvent'.type = "clear"
         /\ lastEvent'.source = lastEvent.source )
       => (selectedCategory' = All /\ selectedStore' = All)]_vars

\* the values the normalizer returns for an alias key or an ambiguous value
NormalizerTargets == {valueMap[k] : k \in valueMapKeys} \cup FallbackSet

\* C34: no alias target and no member of the fallback set is an alias key or
\* an ambiguous value, neither is a value either normaliser returns, and in
\* the static branch getStandardizedValue leaves the value of the inline
\* replacements as it is.
C34_NormalizerClosed ==
    /\ NormalizerTargets \cap (valueMapKeys \cup msProducts) = {}
    /\ lastEvent.type \in {"getStandardizedValue", "inline", "static"} =>
          lastEvent.value \notin valueMapKeys \cup msProducts
    /\ lastEvent.type = "static" => lastEvent.value = lastEvent.prev

----------------------------------------------------------------------------
(* Overlapping loads *)

\* the user record changes or disappears at any moment, also while a load is
\* in flight; the layout changes while a user is signed in
NextOverlap ==
    \/ \E o \in LoadOutcomes : ConfigLoaded(o)
    \/ loadConfig
    \/ UserAbsent
    \/ EmbedDataFetched
    \/ user /\ handleAddReports({1})
    \/ \E d \in EmbedDragSample : user /\ handleDragEnd(d[1], d[2])

SpecOverlap == Init /\ [][NextOverlap]_vars

AddedIds == {getDynamicVisualId(r) : r \in SeqToSet(selectedReports)}

\* C35: an id dynamic-<r> is in the Order List if and only if report r is in
\* the added-widget set, so every dynamic widget that readiness waits for is
\* an item of the grid.
C35_OrderAgreesWithAdded ==
    /\ \A id \in DynamicIds : id \in SeqToSet(visualOrder) <=> id \in AddedIds
    /\ AddedIds \subseteq SeqToSet(VisualItemsForRender(visualOrder, selectedReports))

\* a widget of the added-widget set stands first in the grid after a drag
C35_Witness ==
    /\ user
    /\ nReorders > 0
    /\ selectedReports # <<>>
    /\ visualOrder[1] = "dynamic-1"

----------------------------------------------------------------------------
(* Readiness, eventually *)

\* the requests of the page are answered, and every embedded visual reports
\* rendered
FairReady ==
    /\ WF_vars(\E o \in LoadOutcomes : ConfigLoaded(o))
    /\ WF_vars(EmbedDataFetched)
    /\ \A k \in AllKeys : WF_vars(Rendered(k))

\* the load, the embed data, rendered events and added reports
NextReadyFair ==
    \/ \E o \in LoadOutcomes : ConfigLoaded(o)
    \/ EmbedDataFetched
    \/ \E k \in AllKeys : Rendered(k)
    \/ \E ids \in SUBSET AddableReports : handleAddReports(ids)

SpecReadyFair == Init /\ [][NextReadyFair]_vars /\ FairReady

\* C36: once embedData and the configuration are there, every widget of the
\* Order List holds its handle, and when every embedded widget reports
\* rendered the ready flag becomes true: from no state with both prerequisites
\* is readiness out of reach.
C36_ReadinessLiveness ==
    /\ [](PrerequisitesReady => Unembedded = {})
    /\ PrerequisitesReady ~> visualsLoaded

\* C36 happens: both prerequisites are there, the widget of every addable
\* report is in the Order List and the ready flag is still false
C36_Witness ==
    /\ PrerequisitesReady
    /\ ~visualsLoaded
    /\ Len(selectedReports) = MaxReports
    /\ dynamicVisualsRendered = {}

----------------------------------------------------------------------------
(* The OAuth server: /auth/login and /auth/callback *)

\* the state values explored; "" stands for a request without the parameter
StateValues == {"a1", "b2", "c3"}
CodeValues == {"", "code"}

\* GET /auth/login: crypto.randomBytes(16) gives a value not drawn before; it
\* is stored and sent along with the redirect to the authorize endpoint
Login(state) ==
    /\ state \in StateValues \ issuedStates
    /\ stateCache' = stateCache \cup {state}
    /\ issuedStates' = issuedStates \cup {state}
    /\ lastResponse' = Response("login", state, 302)
    /\ UNCHANGED <<pageSide, exchanges, usedStates>>

\* a variant that leaves the state in the cache: C38 does not hold of it
CallbackKeepsState(code, state) ==
    /\ state \in stateCache => Len(exchanges) < Cardinality(StateValues)
    /\ IF code = "" \/ state = "" \/ state \notin stateCache
       THEN /\ lastResponse' = Response("callback", state, 400)
            /\ UNCHANGED <<stateCache, exchanges, usedStates>>
       ELSE /\ exchanges' = Append(exchanges, state)
            /\ usedStates' = usedStates \cup {state}
            /\ lastResponse' = Response("callback", state, 0)
            /\ UNCHANGED stateCache
    /\ UNCHANGED <<pageSide, issuedStates>>

\* GET /auth/callback up to its await: 400 without code or state and for a
\* state the cache does not hold; otherwise the state is deleted and the
\* token request is sent (status 0: no answer yet)
Callback(code, state) ==
    /\ state \in stateCache => Len(exchanges) < Cardinality(StateValues)
    /\ IF code = "" \/ state = "" \/ state \notin stateCache
       THEN /\ lastResponse' = Response("callback", state, 400)
            /\ UNCHANGED <<stateCache, exchanges, usedStates>>
       ELSE /\ stateCache' = stateCache \ {state}
            /\ exchanges' = Append(exchanges, state)
            /\ usedStates' = usedStates \cup {state}
            /\ lastResponse' = Response("callback", state, 0)
    /\ UNCHANGED <<pageSide, issuedStates>>

\* the token endpoint answers a waiting callback: redirect to the frontend
\* with the id token, or 500
TokenExchanged(i, ok) ==
    /\ i \in DOMAIN exchanges
    /\ exchanges' = SubSeq(exchanges, 1, i - 1) \o SubSeq(exchanges, i + 1, Len(exchanges))
    /\ lastResponse' = Response("token", exchanges[i], IF ok THEN 302 ELSE 500)
    /\ UNCHANGED <<pageSide, stateCache, issuedStates, usedStates>>

\* the ten minutes of a stored state are over (stdTTL: 600)
StateExpired(state) ==
    /\ state \in stateCache
    /\ stateCache' = stateCache \ {state}
    /\ lastResponse' = Response("ttl", state, 0)
    /\ UNCHANGED <<pageSide, exchanges, issuedStates, usedStates>>

NextOAuth ==
    \/ \E s \in StateValues : Login(s)
    \/ \E c \in CodeValues, s \in StateValues \cup {""} : Callback(c, s)
    \/ \E i \in 1..Cardinality(StateValues), ok \in BOOLEAN : TokenExchanged(i, ok)
    \/ \E s \in StateValues : StateExpired(s)

SpecOAuth == Init /\ [][NextOAuth]_vars

\* C38: a callback goes on to the token exchange only with a state that
\* /auth/login issued and no callback went on with before; a callback with a
\* state never issued, or one already used, is answered with status 400.
C38_StateSingleUse ==
    [][lastResponse'.route = "callback" =>
         /\ lastResponse'.status = 0 =>
               (lastResponse'.state \in issuedStates /\ lastResponse'.state \notin usedStates)
         /\ (lastResponse'.state \notin issuedStates \/ lastResponse'.state \in usedStates)
               => lastResponse'.status = 400]_vars

\* C38 happens: a second callback with a state that was used is answered 400
\* while the first one still waits at the token endpoint
C38_Witness ==
    /\ lastResponse = Response("callback", "a1", 400)
    /\ "a1" \in usedStates
    /\ "a1" \in SeqToSet(exchanges)
    /\ "b2" \in stateCache

====
